---------------------------- MODULE Spec2Model ----------------------------
(***************************************************************************)
(* I2S output stage of the Pico 2W A2DP receiver (src/src/audio_out_i2s.c):*)
(* the ring buffer filled by audio_out_i2s_write, the ping-pong DMA        *)
(* buffers refilled by fill_dma_buffer, the transfer-complete handler      *)
(* dma_handler and the DMA channel that reads the buffers.                 *)
(*                                                                         *)
(* Sizes are scaled down: the firmware's capacity, auto-start threshold and  *)
(* DMA buffer length are 88200, 8820 and 512 frames; the model keeps their  *)
(* order, 2 * I2S_DMA_BUFFER_SIZE <= AUTO_START_THRESHOLD < capacity.       *)
(***************************************************************************)
EXTENDS Integers, Sequences, FiniteSets, TLC

\* ------------------------------------------------------------------ sizes
\* config.h: AUDIO_BUFFER_SIZE (AUDIO_SAMPLE_RATE * 2), scaled.
AUDIO_BUFFER_SIZE == 5
\* audio_out_i2s.c: int16 slots of ring_buffer, two per stereo frame.
I2S_BUFFER_SIZE == AUDIO_BUFFER_SIZE * 2
\* audio_out_i2s.c: words in each of the two DMA buffers, scaled.
I2S_DMA_BUFFER_SIZE == 2
\* audio_out_i2s.c: fill level at which write() starts the transfer
\* (AUDIO_BUFFER_SIZE / 10 in the firmware), scaled.
AUTO_START_THRESHOLD == 4
\* Number of stereo frames the ring buffer holds (I2S_BUFFER_SIZE / 2).
Capacity == I2S_BUFFER_SIZE \div 2

\* ----------------------------------------------------------------- bounds
\* Frames in the decoded PCM stream offered to write().
MaxFrames == 7
\* Largest block one write() call is given.
MaxWrite == 3
\* underrun_count is not driven past this value.
MaxUnderrun == 4
\* overrun_count is not driven past this value.
MaxOverrun == 2
\* Taps followed since tap_tempo_init.
MaxTaps == 5
\* The clock is followed up to this time, in ms.
MaxTapTime == 4401

\* ------------------------------------------------------------------ input
\* The k-th stereo frame (k = 1, 2, ...) of the decoded stream: every frame
\* is different from every other, and both signs occur in both channels.
StreamFrame(k) == IF k % 2 = 0 THEN <<k, -k>> ELSE <<-k, k>>

\* pcm_data of a call that is handed frames from+1 .. from+n of the stream,
\* interleaved L R L R as the decoder delivers it (index 0-based).
PcmData(from, n) ==
    [j \in 0..(2 * n - 1) |-> StreamFrame(from + (j \div 2) + 1)[(j % 2) + 1]]

VARIABLES
    ring_buffer,        \* int16_t ring_buffer[I2S_BUFFER_SIZE]
    write_pos,          \* producer index, in frames
    read_pos,           \* consumer index, in frames
    buffered_samples,   \* frames stored and not yet popped
    dma_buffer,         \* int32_t dma_buffer[2][I2S_DMA_BUFFER_SIZE]
    current_dma_buffer, \* the buffer the driver believes is being transferred
    underrun_count,
    overrun_count,
    is_running,
    pio_sm_enabled,     \* PIO state machine shifting words out
    dma_read_addr,      \* DMA READ_ADDR as a word index into dma_buffer
    dma_trans_count,    \* words left in the transfer in progress, 0 = idle
    irq0_status,        \* transfer-complete interrupt raised, not acknowledged
    isr_pc,             \* position inside dma_handler
    finished_buffer,    \* dma_handler local
    next_buffer,        \* dma_handler local
    wr_pc,              \* position inside a preemptible audio_out_i2s_write
    wr_i,               \* its loop index i
    wr_from,            \* stream position of its pcm_data[0]
    wr_tmp,             \* register holding buffered_samples during ++
    num_samples,        \* argument of the latest write
    samples_written,    \* value returned by the latest write
    handled,            \* interrupts handled since the last start, modulo 2
    src_pos,            \* frames of the stream handed to write so far
    written,            \* history: frames write stored since the last clear
    popped,             \* history: number of frames popped since then
    expected,           \* words refilled since the last start, not yet read
    hw_valid,           \* no clear_buffer since the driver was last started
    fresh,              \* fresh[b]: no word of buffer b read since its refill
    api_call,           \* the start() or stop() call the last step was, if any
    current_params,     \* beat_repeat_params_t current_params
    slice_buffer,       \* int16_t slice_buffer[MAX_SLICE_LENGTH * 2]
    multi_slice_buffer, \* int16_t multi_slice_buffer[NUM_SLICES][...]
    multi_slice_lengths,\* uint32_t multi_slice_lengths[NUM_SLICES]
    current_slice_index,\* slot of multi_slice_buffer saved last
    slice_write_pos,    \* capture position, in frames
    slice_read_pos_f,   \* float read position, in 1/POS_UNIT of a frame
    repeat_counter,     \* repeats of the slice finished so far
    is_repeating,       \* the engine is replaying the captured slice
    random_state,       \* static random_state of check_slice_probability
    params_in,          \* the structs handed to the latest set_params
    params_out,         \* the structs get_params returned since then
    fx_call,            \* the call of the effect module the last step was
    set_calls,          \* calls of set_params so far
    data_in,            \* the block handed to the latest process
    data,               \* that block as process left it
    num_channels,       \* the channel count of the latest process
    fx_pos,             \* frames of the stream handed to process so far
    zero_divisor,       \* an integer % was executed with divisor 0
    tap_times,          \* uint32_t state.tap_times[TAP_HISTORY_SIZE], ms
    tap_count,          \* state.tap_count
    last_tap_time,      \* state.last_tap_time
    current_bpm,        \* state.current_bpm, as a fraction n / d
    bpm_detected,       \* state.bpm_detected
    button_last_state,  \* the button level the latest process call read
    last_beat_time,     \* time of the latest automatic LED beat
    led_is_on,          \* the LED is lit
    led_on_time,        \* time the LED was lit
    now_ms,             \* to_ms_since_boot(get_absolute_time())
    tap_log,            \* history: times of the taps since init or reset
    bpm_taps            \* history: tap times the latest update_bpm read

\* The driver's variables and the history kept of them.
driver_vars == <<ring_buffer, write_pos, read_pos, buffered_samples,
                 dma_buffer, current_dma_buffer, underrun_count,
                 overrun_count, is_running, pio_sm_enabled, dma_read_addr,
                 dma_trans_count, irq0_status, isr_pc, finished_buffer,
                 next_buffer, wr_pc, wr_i, wr_from, wr_tmp, num_samples,
                 samples_written, handled, src_pos, written, popped,
                 expected, hw_valid, fresh>>

\* The Beat-Repeat engine's variables and the record of its latest calls.
fx_engine_vars == <<slice_buffer, multi_slice_buffer, multi_slice_lengths,
                    current_slice_index, slice_write_pos, slice_read_pos_f,
                    repeat_counter, is_repeating, random_state,
                    zero_divisor>>
fx_vars == <<current_params, fx_engine_vars, params_in, params_out, fx_call,
             set_calls,
             data_in, data, num_channels, fx_pos>>

\* The tap-tempo module's variables, the clock and the history of the taps.
tap_vars == <<tap_times, tap_count, last_tap_time, current_bpm, bpm_detected,
              button_last_state, last_beat_time, led_is_on, led_on_time,
              now_ms, tap_log, bpm_taps>>

\* All variables: the driver's, the record of the latest call, the engine's,
\* the tap-tempo module's.
vars == <<driver_vars, api_call, fx_vars, tap_vars>>

\* The variables of a preemptible write that is not in progress.
wr_vars == <<wr_pc, wr_i, wr_from, wr_tmp>>
\* The variables of dma_handler.
isr_vars == <<isr_pc, finished_buffer, next_buffer>>
\* The DMA channel and the PIO state machine.
hw_vars == <<pio_sm_enabled, dma_read_addr, dma_trans_count, irq0_status>>

\* --------------------------------------------------------- pure functions
\* A packing without the (uint16_t) casts, (left << 16) | right: right is
\* promoted to int with its sign, and a negative right sets the upper half.
PackSignExtended(left, right) ==
    IF right < 0 THEN right ELSE left * 65536 + right

\* buffer[i] = ((uint32_t)(uint16_t)left << 16) | (uint16_t)right, as the
\* int32_t the DMA buffer holds (bit 31 set reads as a negative word).
Pack(left, right) ==
    LET hi == left % 65536
        lo == right % 65536
    IN  IF hi >= 32768 THEN (hi - 65536) * 65536 + lo ELSE hi * 65536 + lo

\* The word fill_dma_buffer stores for a stereo frame <<left, right>>.
PackFrame(fr) == Pack(fr[1], fr[2])

\* The loop of fill_dma_buffer from index i on. f carries the buffer being
\* filled (buf), read_pos (rp), buffered_samples (bs), underrun_count (uc)
\* and the number of frames popped so far (pops); rb is the ring buffer, k
\* is num_samples.
RECURSIVE FillLoop(_, _, _, _)
FillLoop(f, rb, k, i) ==
    IF i >= k THEN f
    ELSE IF f.bs > 0
         THEN LET left  == rb[f.rp * 2]
                  right == rb[f.rp * 2 + 1]
                  word  == Pack(left, right)
              IN  FillLoop([buf |-> [f.buf EXCEPT ![i] = word],
                            rp  |-> (f.rp + 1) % (I2S_BUFFER_SIZE \div 2),
                            bs  |-> f.bs - 1,
                            uc  |-> f.uc,
                            pops |-> f.pops + 1],
                           rb, k, i + 1)
         ELSE FillLoop([buf |-> [f.buf EXCEPT ![i] = 0],
                        rp  |-> f.rp,
                        bs  |-> f.bs,
                        uc  |-> f.uc + 1,
                        pops |-> f.pops],
                       rb, k, i + 1)

\* A refill that takes the frame after the one at read_pos first: the order
\* of the frames is not the order of the writes.
FillDmaBufferOutOfOrder(buf, rb, rp, bs, uc, k) ==
    IF bs > 1
    THEN LET f == FillLoop([buf |-> buf,
                            rp |-> (rp + 1) % (I2S_BUFFER_SIZE \div 2),
                            bs |-> bs - 1, uc |-> uc, pops |-> 0],
                           rb, k, 0)
         IN  [f EXCEPT !.bs = @ + 1]
    ELSE FillLoop([buf |-> buf, rp |-> rp, bs |-> bs, uc |-> uc, pops |-> 0],
                  rb, k, 0)

\* A refill that counts one underrun for a call that ran short, however many
\* slots it filled with silence.
FillDmaBufferCountsCalls(buf, rb, rp, bs, uc, k) ==
    LET f == FillLoop([buf |-> buf, rp |-> rp, bs |-> bs, uc |-> uc,
                       pops |-> 0], rb, k, 0)
    IN  [f EXCEPT !.uc = IF @ > uc THEN uc + 1 ELSE uc]

\* fill_dma_buffer(buffer, num_samples) on the given ring state.
FillDmaBuffer(buf, rb, rp, bs, uc, k) ==
    FillLoop([buf |-> buf, rp |-> rp, bs |-> bs, uc |-> uc, pops |-> 0],
             rb, k, 0)

\* A write loop whose write_pos does not wrap at the end of the ring.
RECURSIVE WriteLoopNoWrap(_, _, _, _)
WriteLoopNoWrap(w, pcm_data, n, i) ==
    IF i >= n THEN w
    ELSE LET free_space == I2S_BUFFER_SIZE \div 2 - w.bs
         IN  IF free_space = 0
             THEN [w EXCEPT !.oc = @ + 1]
             ELSE WriteLoopNoWrap(
                    [rb |-> [w.rb EXCEPT ![w.wp * 2] = pcm_data[i * 2],
                                         ![w.wp * 2 + 1] = pcm_data[i * 2 + 1]],
                     wp |-> w.wp + 1,
                     bs |-> w.bs + 1,
                     sw |-> w.sw + 1,
                     oc |-> w.oc],
                    pcm_data, n, i + 1)

\* A write loop that stores into a full ring, over frames not yet popped.
RECURSIVE WriteLoopOverwrites(_, _, _, _)
WriteLoopOverwrites(w, pcm_data, n, i) ==
    IF i >= n THEN w
    ELSE WriteLoopOverwrites(
           [rb |-> [w.rb EXCEPT ![w.wp * 2] = pcm_data[i * 2],
                                ![w.wp * 2 + 1] = pcm_data[i * 2 + 1]],
            wp |-> (w.wp + 1) % (I2S_BUFFER_SIZE \div 2),
            bs |-> IF w.bs < I2S_BUFFER_SIZE \div 2 THEN w.bs + 1 ELSE w.bs,
            sw |-> w.sw + 1,
            oc |-> w.oc],
           pcm_data, n, i + 1)

\* A write loop that counts every frame it drops.
RECURSIVE WriteLoopCountsFrames(_, _, _, _)
WriteLoopCountsFrames(w, pcm_data, n, i) ==
    IF i >= n THEN w
    ELSE LET free_space == I2S_BUFFER_SIZE \div 2 - w.bs
         IN  IF free_space = 0
             THEN [w EXCEPT !.oc = @ + (n - i)]
             ELSE WriteLoopCountsFrames(
                    [rb |-> [w.rb EXCEPT ![w.wp * 2] = pcm_data[i * 2],
                                         ![w.wp * 2 + 1] = pcm_data[i * 2 + 1]],
                     wp |-> (w.wp + 1) % (I2S_BUFFER_SIZE \div 2),
                     bs |-> w.bs + 1,
                     sw |-> w.sw + 1,
                     oc |-> w.oc],
                    pcm_data, n, i + 1)

\* A write loop that stores frames and does not count them.
RECURSIVE WriteLoopKeepsCount(_, _, _, _)
WriteLoopKeepsCount(w, pcm_data, n, i) ==
    IF i >= n THEN w
    ELSE LET free_space == I2S_BUFFER_SIZE \div 2 - w.bs
         IN  IF free_space = 0
             THEN [w EXCEPT !.oc = @ + 1]
             ELSE WriteLoopKeepsCount(
                    [rb |-> [w.rb EXCEPT ![w.wp * 2] = pcm_data[i * 2],
                                         ![w.wp * 2 + 1] = pcm_data[i * 2 + 1]],
                     wp |-> (w.wp + 1) % (I2S_BUFFER_SIZE \div 2),
                     bs |-> w.bs,
                     sw |-> w.sw + 1,
                     oc |-> w.oc],
                    pcm_data, n, i + 1)

\* The loop of audio_out_i2s_write from index i on, not preempted. w carries
\* ring_buffer (rb), write_pos (wp), buffered_samples (bs), samples_written
\* (sw) and overrun_count (oc).
RECURSIVE WriteLoop(_, _, _, _)
WriteLoop(w, pcm_data, n, i) ==
    IF i >= n THEN w
    ELSE LET free_space == I2S_BUFFER_SIZE \div 2 - w.bs
         IN  IF free_space = 0
             THEN [w EXCEPT !.oc = @ + 1]
             ELSE WriteLoop(
                    [rb |-> [w.rb EXCEPT ![w.wp * 2] = pcm_data[i * 2],
                                         ![w.wp * 2 + 1] = pcm_data[i * 2 + 1]],
                     wp |-> (w.wp + 1) % (I2S_BUFFER_SIZE \div 2),
                     bs |-> w.bs + 1,
                     sw |-> w.sw + 1,
                     oc |-> w.oc],
                    pcm_data, n, i + 1)

\* The words of a DMA buffer in the order the channel reads them.
BufferWords(buf) == [j \in 1..I2S_DMA_BUFFER_SIZE |-> buf[j - 1]]

\* Frames from+1 .. from+n of the stream, as a sequence.
StreamSeq(from, n) == [j \in 1..n |-> StreamFrame(from + j)]

\* ------------------------------------------------------------------- init
\* ------------------------------------------------- Beat-Repeat constants
\* A float of the engine (pitch_shift, window_shape, loop_start,
\* loop_size_decay, slice_probability, slice_read_pos_f) is held as an
\* integer number of hundredths. The parameter values the model passes are
\* exact binary fractions or leave a non-integer product, so every float
\* product the engine truncates has the value computed here.
FX_UNIT == 100

AUDIO_SAMPLE_RATE == 44100
MAX_SLICE_LENGTH == AUDIO_SAMPLE_RATE * 1
MIN_SLICE_LENGTH == 128
MIN_REPEAT_COUNT == 1
MAX_REPEAT_COUNT == 16
MAX_WET_MIX == 100
MIN_PITCH_SHIFT == 25
MAX_PITCH_SHIFT == 400
MIN_STUTTER_LENGTH == 64
MIN_WINDOW_SHAPE == 0
MAX_WINDOW_SHAPE == 100
MIN_LOOP_START == 0
MAX_LOOP_START == 100
MIN_LOOP_SIZE_DECAY == 0
MAX_LOOP_SIZE_DECAY == 100
MAX_SLICE_SELECT == 1
MIN_SLICE_PROBABILITY == 0
MAX_SLICE_PROBABILITY == 100
STEREO_CHANNELS == 2
SAMPLE_MAX == 32767
SAMPLE_MIN == -32768
NUM_SLICES == 2
PITCH_MODE_FIXED_REVERSE == 0
PITCH_MODE_DECREASING == 1
PITCH_MODE_INCREASING == 2
PITCH_MODE_SCRATCH == 3

\* The float slice_read_pos_f and the pitch multiplier added to it are held
\* as an integer number of 1/POS_UNIT frames: hundredths (the parameters)
\* and thirty-seconds (the ramps of the pitch modes over a loop of 1 to 16
\* frames) are both whole numbers of it, so the float sums the engine forms
\* are exact and have the value computed here.
POS_UNIT == 1600
\* The floats that are not finite: +infinity is F_INF, -infinity is -F_INF.
F_INF == 1000000000
F_NAN == 2000000000

\* The seed, the multiplier, the increment and the mask of random_state.
RANDOM_SEED == 12345
RANDOM_MULTIPLIER == 1103515245
RANDOM_INCREMENT == 12345
RANDOM_MASK == 2147483647

\* Frames of the input stream handed to audio_effect_process in a run.
MaxFxFrames == 16
\* Longest block of one audio_effect_process call, in frames.
MaxBlock == 2
\* Calls of audio_effect_set_params while blocks are processed.
MaxSetParams == 2

\* The slots of slice_buffer and of a multi_slice_buffer row that a run can
\* write: slice_write_pos never passes the number of frames processed. Every
\* other slot keeps the 0 that audio_effect_init stored.
SliceSlots == 0..(2 * MaxFxFrames - 1)

\* The parameters audio_effect_init stores.
DefaultParams ==
    [slice_length |-> AUDIO_SAMPLE_RATE \div 4,
     repeat_count |-> 4,
     wet_mix |-> 70,
     enabled |-> TRUE,
     pitch_shift |-> 100,
     reverse |-> FALSE,
     stutter_enabled |-> FALSE,
     stutter_slice_length |-> AUDIO_SAMPLE_RATE \div 100,
     window_shape |-> 5,
     loop_start |-> 0,
     loop_size_decay |-> 0,
     slice_select |-> 0,
     slice_probability |-> 100,
     clock_divider |-> 1,
     pitch_mode |-> PITCH_MODE_FIXED_REVERSE,
     freeze |-> FALSE]

\* The state audio_effect_init leaves.
audio_effect_init ==
    /\ current_params = DefaultParams
    /\ slice_buffer = [j \in SliceSlots |-> 0]
    /\ multi_slice_buffer = [s \in 0..(NUM_SLICES - 1) |-> [j \in SliceSlots |-> 0]]
    /\ multi_slice_lengths = [s \in 0..(NUM_SLICES - 1) |-> 0]
    /\ slice_write_pos = 0
    /\ slice_read_pos_f = 0
    /\ repeat_counter = 0
    /\ is_repeating = FALSE
    /\ current_slice_index = 0
    /\ random_state = RANDOM_SEED
    /\ params_in = {}
    /\ params_out = {}
    /\ fx_call = "none"
    /\ set_calls = 0
    /\ data_in = <<>>
    /\ data = <<>>
    /\ num_channels = STEREO_CHANNELS
    /\ fx_pos = 0
    /\ zero_divisor = FALSE

\* ---------------------------------------------------- tap tempo constants
\* tap_tempo.h: taps kept in state.tap_times.
TAP_HISTORY_SIZE == 4
\* tap_tempo.h: a tap later than this after the previous one starts anew, ms.
TAP_TIMEOUT_MS == 2000
\* tap_tempo.h: the range update_bpm clamps to, and the BPM before any tap.
MIN_BPM == 30
MAX_BPM == 303
DEFAULT_BPM == 120
\* tap_tempo.c: time the LED stays lit, ms.
LED_BLINK_DURATION_MS == 50

\* A float BPM value as the fraction n / d it stands for; d = 0 is +infinity
\* (60.0f / 0.0f). The model keeps the quotient exact where the firmware
\* rounds it to a float; rounding is monotone and MIN_BPM and MAX_BPM are
\* floats, so the two comparisons of update_bpm agree with the exact ones up
\* to a result that is the bound itself.
BpmValue(n, d) == [n |-> n, d |-> d]

\* The state tap_tempo_init leaves, at boot with the button released.
tap_tempo_init ==
    /\ tap_times = [i \in 0..(TAP_HISTORY_SIZE - 1) |-> 0]
    /\ tap_count = 0
    /\ last_tap_time = 0
    /\ current_bpm = BpmValue(DEFAULT_BPM, 1)
    /\ bpm_detected = FALSE
    /\ button_last_state = FALSE
    /\ last_beat_time = 0
    /\ led_is_on = FALSE
    /\ led_on_time = 0
    /\ now_ms = 0
    /\ tap_log = <<>>
    /\ bpm_taps = <<>>

\* The state audio_out_i2s_init leaves: the channel configured to read
\* dma_buffer[0] and not triggered, the buffers cleared.
Init ==
    /\ ring_buffer = [j \in 0..(I2S_BUFFER_SIZE - 1) |-> 0]
    /\ write_pos = 0
    /\ read_pos = 0
    /\ buffered_samples = 0
    /\ dma_buffer = [b \in 0..1 |-> [j \in 0..(I2S_DMA_BUFFER_SIZE - 1) |-> 0]]
    /\ current_dma_buffer = 0
    /\ underrun_count = 0
    /\ overrun_count = 0
    /\ is_running = FALSE
    /\ pio_sm_enabled = FALSE
    /\ dma_read_addr = 0
    /\ dma_trans_count = 0
    /\ irq0_status = FALSE
    /\ isr_pc = "idle"
    /\ finished_buffer = 0
    /\ next_buffer = 0
    /\ wr_pc = "idle"
    /\ wr_i = 0
    /\ wr_from = 0
    /\ wr_tmp = 0
    /\ num_samples = 0
    /\ samples_written = 0
    /\ handled = 0
    /\ src_pos = 0
    /\ written = <<>>
    /\ popped = 0
    /\ expected = <<>>
    /\ hw_valid = FALSE
    /\ fresh = [b \in 0..1 |-> FALSE]
    /\ api_call = "none"
    /\ audio_effect_init
    /\ tap_tempo_init

\* The foreground runs only while no interrupt handler and no other
\* foreground call is in progress.
ForegroundIdle == isr_pc = "idle" /\ wr_pc = "idle"

\* ------------------------------------------------------------------ start
\* The body of audio_out_i2s_start past its is_running test, on ring state
\* (rb, rp, bs, uc): both buffers prefilled, current_dma_buffer = 0, the
\* state machine enabled and the channel triggered where READ_ADDR stands
\* (a trigger of a busy channel is ignored).
StartBody(rb, rp, bs, uc) ==
    LET f0 == FillDmaBuffer(dma_buffer[0], rb, rp, bs, uc, I2S_DMA_BUFFER_SIZE)
        f1 == FillDmaBuffer(dma_buffer[1], rb, f0.rp, f0.bs, f0.uc,
                            I2S_DMA_BUFFER_SIZE)
    IN  /\ f1.uc <= MaxUnderrun
        /\ dma_buffer' = [b \in 0..1 |-> IF b = 0 THEN f0.buf ELSE f1.buf]
        /\ read_pos' = f1.rp
        /\ buffered_samples' = f1.bs
        /\ underrun_count' = f1.uc
        /\ current_dma_buffer' = 0
        /\ pio_sm_enabled' = TRUE
        /\ dma_trans_count' = IF dma_trans_count = 0
                              THEN I2S_DMA_BUFFER_SIZE ELSE dma_trans_count
        /\ is_running' = TRUE
        /\ handled' = 0
        /\ popped' = popped + f0.pops + f1.pops
        /\ expected' = BufferWords(f0.buf) \o BufferWords(f1.buf)
        /\ hw_valid' = TRUE
        /\ fresh' = [b \in 0..1 |-> TRUE]
        /\ UNCHANGED <<dma_read_addr, irq0_status>>

\* The record a call of start() leaves in api_call: two values, so that a
\* call that follows another call of start() is a step of its own.
StartTag == IF api_call = "start" THEN "start_again" ELSE "start"

\* A start() that does not test is_running.
StartWithoutTest ==
    /\ ForegroundIdle
    /\ api_call' = StartTag
    /\ UNCHANGED <<fx_vars, tap_vars>>
    /\ StartBody(ring_buffer, read_pos, buffered_samples, underrun_count)
    /\ UNCHANGED <<ring_buffer, write_pos, overrun_count, isr_vars,
                   wr_vars, num_samples, samples_written, src_pos,
                   written>>

\* audio_out_i2s_start().
Start ==
    /\ ForegroundIdle
    /\ api_call' = StartTag
    /\ UNCHANGED <<fx_vars, tap_vars>>
    /\ IF is_running
       THEN UNCHANGED driver_vars
       ELSE /\ StartBody(ring_buffer, read_pos, buffered_samples, underrun_count)
            /\ UNCHANGED <<ring_buffer, write_pos, overrun_count, isr_vars,
                           wr_vars, num_samples, samples_written, src_pos,
                           written>>

\* ------------------------------------------------------------------ write
\* A tail that starts the transfer only above the threshold, not at it.
WriteTailAboveThreshold(rb, bs) ==
    IF ~is_running /\ bs > AUTO_START_THRESHOLD
    THEN StartBody(rb, read_pos, bs, underrun_count)
    ELSE /\ buffered_samples' = bs
         /\ UNCHANGED <<read_pos, underrun_count, dma_buffer,
                        current_dma_buffer, is_running, hw_vars, handled,
                        popped, expected, hw_valid, fresh>>

\* A tail that starts the transfer one frame below the threshold.
WriteTailBelowThreshold(rb, bs) ==
    IF ~is_running /\ bs >= AUTO_START_THRESHOLD - 1
    THEN StartBody(rb, read_pos, bs, underrun_count)
    ELSE /\ buffered_samples' = bs
         /\ UNCHANGED <<read_pos, underrun_count, dma_buffer,
                        current_dma_buffer, is_running, hw_vars, handled,
                        popped, expected, hw_valid, fresh>>

\* The tail of audio_out_i2s_write on the ring state the loop left: the
\* auto-start test, then return.
WriteTail(rb, bs) ==
    IF ~is_running /\ bs >= AUTO_START_THRESHOLD
    THEN StartBody(rb, read_pos, bs, underrun_count)
    ELSE /\ buffered_samples' = bs
         /\ UNCHANGED <<read_pos, underrun_count, dma_buffer,
                        current_dma_buffer, is_running, hw_vars, handled,
                        popped, expected, hw_valid, fresh>>

\* audio_out_i2s_write(pcm_data, n), not preempted, on the next n frames of
\* the stream.
Write ==
    /\ ForegroundIdle
    /\ \E n \in 1..MaxWrite :
         /\ src_pos + n <= MaxFrames
         /\ LET pcm_data == PcmData(src_pos, n)
                w == WriteLoop([rb |-> ring_buffer, wp |-> write_pos,
                                bs |-> buffered_samples, sw |-> 0,
                                oc |-> overrun_count], pcm_data, n, 0)
            IN  /\ w.oc <= MaxOverrun
                /\ ring_buffer' = w.rb
                /\ write_pos' = w.wp
                /\ overrun_count' = w.oc
                /\ num_samples' = n
                /\ samples_written' = w.sw
                /\ src_pos' = src_pos + n
                /\ written' = written \o StreamSeq(src_pos, w.sw)
                /\ WriteTail(w.rb, w.bs)
    /\ api_call' = "none"
    /\ UNCHANGED <<fx_vars, tap_vars>>
    /\ UNCHANGED <<isr_vars, wr_vars>>

\* ------------------------------------------------------------------- stop
\* The record a call of stop() leaves in api_call.
StopTag == IF api_call = "stop" THEN "stop_again" ELSE "stop"

\* audio_out_i2s_stop(): the transfer aborted where it stands, the state
\* machine disabled.
Stop ==
    /\ ForegroundIdle
    /\ api_call' = StopTag
    /\ UNCHANGED <<fx_vars, tap_vars>>
    /\ IF ~is_running
       THEN UNCHANGED driver_vars
       ELSE /\ dma_trans_count' = 0
            /\ pio_sm_enabled' = FALSE
            /\ is_running' = FALSE
            /\ UNCHANGED <<ring_buffer, write_pos, read_pos, buffered_samples,
                           dma_buffer, current_dma_buffer, underrun_count,
                           overrun_count, dma_read_addr, irq0_status,
                           isr_vars, wr_vars, num_samples, samples_written,
                           handled, src_pos, written, popped, expected,
                           hw_valid, fresh>>

\* ----------------------------------------------------------- clear_buffer
\* A clear that resets underrun_count and keeps overrun_count.
ClearStatsKeepsOverrun ==
    /\ underrun_count' = 0
    /\ overrun_count' = overrun_count

\* audio_out_i2s_clear_buffer: underrun_count = 0; overrun_count = 0.
ClearStats ==
    /\ underrun_count' = 0
    /\ overrun_count' = 0

\* audio_out_i2s_clear_buffer(), as the main loop calls it when the stream
\* disconnects; the next connection delivers a new stream.
ClearBuffer ==
    /\ ForegroundIdle
    /\ write_pos' = 0
    /\ read_pos' = 0
    /\ buffered_samples' = 0
    /\ ClearStats
    /\ ring_buffer' = [j \in 0..(I2S_BUFFER_SIZE - 1) |-> 0]
    /\ dma_buffer' = [b \in 0..1 |-> [j \in 0..(I2S_DMA_BUFFER_SIZE - 1) |-> 0]]
    /\ written' = <<>>
    /\ popped' = 0
    /\ expected' = <<>>
    /\ hw_valid' = FALSE
    /\ src_pos' = 0
    /\ api_call' = "none"
    /\ UNCHANGED <<fx_vars, tap_vars>>
    /\ UNCHANGED <<current_dma_buffer, is_running, hw_vars, isr_vars, wr_vars,
                   num_samples, samples_written, handled, fresh>>

\* ------------------------------------------------------------ dma_handler
\* dma_handler up to and including dma_channel_set_read_addr(.., true): the
\* interrupt acknowledged, the channel re-armed on dma_buffer[next_buffer].
\* It is entered between two foreground steps whenever the interrupt is
\* raised.
IsrEnter ==
    /\ isr_pc = "idle"
    /\ irq0_status
    /\ irq0_status' = FALSE
    /\ finished_buffer' = current_dma_buffer
    /\ next_buffer' = 1 - current_dma_buffer
    /\ dma_read_addr' = (1 - current_dma_buffer) * I2S_DMA_BUFFER_SIZE
    /\ dma_trans_count' = IF dma_trans_count = 0
                          THEN I2S_DMA_BUFFER_SIZE ELSE dma_trans_count
    /\ isr_pc' = "fill"
    /\ api_call' = "none"
    /\ UNCHANGED <<fx_vars, tap_vars>>
    /\ UNCHANGED <<ring_buffer, write_pos, read_pos, buffered_samples,
                   dma_buffer, current_dma_buffer, underrun_count,
                   overrun_count, is_running, pio_sm_enabled, wr_vars,
                   num_samples, samples_written, handled, src_pos, written,
                   popped, expected, hw_valid, fresh>>

\* dma_handler: fill_dma_buffer(dma_buffer[finished_buffer], ..).
IsrFill ==
    /\ isr_pc = "fill"
    /\ LET f == FillDmaBuffer(dma_buffer[finished_buffer], ring_buffer,
                              read_pos, buffered_samples, underrun_count,
                              I2S_DMA_BUFFER_SIZE)
       IN  /\ f.uc <= MaxUnderrun
           /\ dma_buffer' = [dma_buffer EXCEPT ![finished_buffer] = f.buf]
           /\ read_pos' = f.rp
           /\ buffered_samples' = f.bs
           /\ underrun_count' = f.uc
           /\ popped' = popped + f.pops
           /\ expected' = expected \o BufferWords(f.buf)
           /\ fresh' = [fresh EXCEPT ![finished_buffer] = TRUE]
    /\ isr_pc' = "update"
    /\ api_call' = "none"
    /\ UNCHANGED <<fx_vars, tap_vars>>
    /\ UNCHANGED <<ring_buffer, write_pos, current_dma_buffer, overrun_count,
                   is_running, hw_vars, finished_buffer, next_buffer, wr_vars,
                   num_samples, samples_written, handled, src_pos, written,
                   hw_valid>>

\* dma_handler: current_dma_buffer = next_buffer, and return.
IsrReturn ==
    /\ isr_pc = "update"
    /\ current_dma_buffer' = next_buffer
    /\ isr_pc' = "idle"
    /\ finished_buffer' = 0
    /\ next_buffer' = 0
    /\ handled' = 1 - handled
    /\ api_call' = "none"
    /\ UNCHANGED <<fx_vars, tap_vars>>
    /\ UNCHANGED <<ring_buffer, write_pos, read_pos, buffered_samples,
                   dma_buffer, underrun_count, overrun_count, is_running,
                   hw_vars, wr_vars, num_samples, samples_written, src_pos,
                   written, popped, expected, hw_valid, fresh>>

\* --------------------------------------------------------------- hardware
\* The words the channel can read next: the word at READ_ADDR, or whatever
\* lies in memory when READ_ADDR is past the end of dma_buffer.
DmaReadWords ==
    IF dma_read_addr < 2 * I2S_DMA_BUFFER_SIZE
    THEN {dma_buffer[dma_read_addr \div I2S_DMA_BUFFER_SIZE]
                    [dma_read_addr % I2S_DMA_BUFFER_SIZE]}
    ELSE {0} \cup {PackFrame(StreamFrame(k)) : k \in 1..MaxFrames}

\* The DMA channel moves one word to the PIO TX FIFO: it reads the word at
\* READ_ADDR (read increment on), and raises the interrupt when the last
\* word of the transfer has gone. The state machine paces the transfer.
\* Addresses more than one word past the end of dma_buffer are kept as one.
DmaTransfer ==
    /\ dma_trans_count > 0
    /\ pio_sm_enabled
    /\ expected' = IF expected = <<>> THEN expected ELSE Tail(expected)
    /\ fresh' = IF dma_read_addr < 2 * I2S_DMA_BUFFER_SIZE
                THEN [fresh EXCEPT ![dma_read_addr \div I2S_DMA_BUFFER_SIZE]
                                      = FALSE]
                ELSE fresh
    /\ dma_read_addr' = IF dma_read_addr <= 2 * I2S_DMA_BUFFER_SIZE
                        THEN dma_read_addr + 1 ELSE dma_read_addr
    /\ dma_trans_count' = dma_trans_count - 1
    /\ irq0_status' = (irq0_status \/ dma_trans_count = 1)
    /\ api_call' = "none"
    /\ UNCHANGED <<fx_vars, tap_vars>>
    /\ UNCHANGED <<ring_buffer, write_pos, read_pos, buffered_samples,
                   dma_buffer, current_dma_buffer, underrun_count,
                   overrun_count, is_running, pio_sm_enabled, isr_vars,
                   wr_vars, num_samples, samples_written, handled, src_pos,
                   written, popped, hw_valid>>

\* ---------------------------------------------------------- specification
\* Foreground calls run to completion; the interrupt handler runs between
\* them, and the DMA channel runs beside both.
Next ==
    \/ Write
    \/ Start
    \/ Stop
    \/ ClearBuffer
    \/ IsrEnter
    \/ IsrFill
    \/ IsrReturn
    \/ DmaTransfer

Spec == Init /\ [][Next]_vars

\* ------------------------------------------------------- samples packed
\* Frames written in a run of the samples below.
MaxPackFrames == 2

\* Samples at both ends of int16_t and on both sides of zero.
PackSamples == {-32768, -1, 0, 1, 256, 32767}

\* audio_out_i2s_write(pcm_data, 1), not preempted, on one frame of any two
\* of the samples.
WriteSample ==
    /\ ForegroundIdle
    /\ src_pos < MaxPackFrames
    /\ \E left \in PackSamples, right \in PackSamples :
         LET pcm_data == [j \in 0..1 |-> IF j = 0 THEN left ELSE right]
             w == WriteLoop([rb |-> ring_buffer, wp |-> write_pos,
                             bs |-> buffered_samples, sw |-> 0,
                             oc |-> overrun_count], pcm_data, 1, 0)
         IN  /\ w.oc <= MaxOverrun
             /\ ring_buffer' = w.rb
             /\ write_pos' = w.wp
             /\ overrun_count' = w.oc
             /\ num_samples' = 1
             /\ samples_written' = w.sw
             /\ src_pos' = src_pos + 1
             /\ written' = IF w.sw = 1
                           THEN Append(written, <<left, right>>)
                           ELSE written
             /\ WriteTail(w.rb, w.bs)
    /\ api_call' = "none"
    /\ UNCHANGED <<fx_vars, tap_vars>>
    /\ UNCHANGED <<isr_vars, wr_vars>>

\* The driver fed frames of any samples.
NextPack ==
    \/ WriteSample
    \/ Start
    \/ Stop
    \/ IsrEnter
    \/ IsrFill
    \/ IsrReturn
    \/ DmaTransfer

SpecPack == Init /\ [][NextPack]_vars

\* ------------------------------------------------------ preemptible write
\* audio_out_i2s_write taken one memory access at a time, so that the
\* transfer-complete interrupt can run between any two of them. A step of
\* the foreground is taken only while no interrupt handler is running.
WriteVarsKept ==
    UNCHANGED <<read_pos, dma_buffer, current_dma_buffer, underrun_count,
                is_running, hw_vars, isr_vars, handled, popped, expected,
                hw_valid, fresh, api_call, fx_vars, tap_vars>>

\* The call: pcm_data is the next n frames of the stream.
WrCall ==
    /\ ForegroundIdle
    /\ \E n \in 1..MaxWrite :
         /\ src_pos + n <= MaxFrames
         /\ num_samples' = n
         /\ wr_from' = src_pos
         /\ src_pos' = src_pos + n
    /\ wr_pc' = "loop"
    /\ wr_i' = 0
    /\ samples_written' = 0
    /\ UNCHANGED <<ring_buffer, write_pos, buffered_samples, overrun_count,
                   wr_tmp, written>>
    /\ WriteVarsKept

\* A loop head that never finds the ring full.
WrCheckNeverFull ==
    /\ isr_pc = "idle"
    /\ wr_pc = "loop"
    /\ wr_pc' = IF wr_i >= num_samples THEN "tail" ELSE "left"
    /\ UNCHANGED <<ring_buffer, write_pos, buffered_samples, overrun_count,
                   wr_i, wr_from, wr_tmp, num_samples, samples_written,
                   src_pos, written>>
    /\ WriteVarsKept

\* i < num_samples, then free_space = I2S_BUFFER_SIZE / 2 - buffered_samples
\* and the overrun test.
WrCheck ==
    /\ isr_pc = "idle"
    /\ wr_pc = "loop"
    /\ IF wr_i >= num_samples
       THEN /\ wr_pc' = "tail"
            /\ UNCHANGED overrun_count
       ELSE LET free_space == I2S_BUFFER_SIZE \div 2 - buffered_samples
            IN  IF free_space = 0
                THEN /\ overrun_count + 1 <= MaxOverrun
                     /\ overrun_count' = overrun_count + 1
                     /\ wr_pc' = "tail"
                ELSE /\ wr_pc' = "left"
                     /\ UNCHANGED overrun_count
    /\ UNCHANGED <<ring_buffer, write_pos, buffered_samples, wr_i, wr_from,
                   wr_tmp, num_samples, samples_written, src_pos, written>>
    /\ WriteVarsKept

\* ring_buffer[write_pos * 2] = pcm_data[i * 2].
WrLeft ==
    /\ isr_pc = "idle"
    /\ wr_pc = "left"
    /\ ring_buffer' = [ring_buffer EXCEPT ![write_pos * 2] =
                         PcmData(wr_from, num_samples)[wr_i * 2]]
    /\ wr_pc' = "right"
    /\ UNCHANGED <<write_pos, buffered_samples, overrun_count, wr_i, wr_from,
                   wr_tmp, num_samples, samples_written, src_pos, written>>
    /\ WriteVarsKept

\* ring_buffer[write_pos * 2 + 1] = pcm_data[i * 2 + 1].
WrRight ==
    /\ isr_pc = "idle"
    /\ wr_pc = "right"
    /\ ring_buffer' = [ring_buffer EXCEPT ![write_pos * 2 + 1] =
                         PcmData(wr_from, num_samples)[wr_i * 2 + 1]]
    /\ wr_pc' = "pos"
    /\ UNCHANGED <<write_pos, buffered_samples, overrun_count, wr_i, wr_from,
                   wr_tmp, num_samples, samples_written, src_pos, written>>
    /\ WriteVarsKept

\* write_pos = (write_pos + 1) % (I2S_BUFFER_SIZE / 2).
WrPos ==
    /\ isr_pc = "idle"
    /\ wr_pc = "pos"
    /\ write_pos' = (write_pos + 1) % (I2S_BUFFER_SIZE \div 2)
    /\ wr_pc' = "load"
    /\ UNCHANGED <<ring_buffer, buffered_samples, overrun_count, wr_i,
                   wr_from, wr_tmp, num_samples, samples_written, src_pos,
                   written>>
    /\ WriteVarsKept

\* buffered_samples++, first half: the load into a register.
WrLoad ==
    /\ isr_pc = "idle"
    /\ wr_pc = "load"
    /\ wr_tmp' = buffered_samples
    /\ wr_pc' = "store"
    /\ UNCHANGED <<ring_buffer, write_pos, buffered_samples, overrun_count,
                   wr_i, wr_from, num_samples, samples_written, src_pos,
                   written>>
    /\ WriteVarsKept

\* buffered_samples++, second half: the store of register + 1; then
\* samples_written++ and i++.
WrStore ==
    /\ isr_pc = "idle"
    /\ wr_pc = "store"
    /\ buffered_samples' = wr_tmp + 1
    /\ samples_written' = samples_written + 1
    /\ wr_i' = wr_i + 1
    /\ wr_tmp' = 0
    /\ written' = Append(written, StreamFrame(wr_from + wr_i + 1))
    /\ wr_pc' = "loop"
    /\ UNCHANGED <<ring_buffer, write_pos, overrun_count, wr_from,
                   num_samples, src_pos>>
    /\ WriteVarsKept

\* The auto-start test and the return.
WrTail ==
    /\ isr_pc = "idle"
    /\ wr_pc = "tail"
    /\ WriteTail(ring_buffer, buffered_samples)
    /\ wr_pc' = "idle"
    /\ wr_i' = 0
    /\ UNCHANGED <<ring_buffer, write_pos, overrun_count, wr_from, wr_tmp,
                   num_samples, samples_written, src_pos, written, isr_vars,
                   api_call, fx_vars, tap_vars>>

\* The foreground writes, one access at a time; the interrupt handler runs
\* between any two accesses; the DMA channel runs beside both.
NextPreempt ==
    \/ WrCall
    \/ WrCheck
    \/ WrLeft
    \/ WrRight
    \/ WrPos
    \/ WrLoad
    \/ WrStore
    \/ WrTail
    \/ IsrEnter
    \/ IsrFill
    \/ IsrReturn
    \/ DmaTransfer

SpecPreempt == Init /\ [][NextPreempt]_vars

\* ------------------------------------------ write with atomic updates
\* buffered_samples++ as one indivisible read-modify-write; then
\* samples_written++ and i++.
WrIncr ==
    /\ isr_pc = "idle"
    /\ wr_pc = "load"
    /\ buffered_samples' = buffered_samples + 1
    /\ samples_written' = samples_written + 1
    /\ wr_i' = wr_i + 1
    /\ written' = Append(written, StreamFrame(wr_from + wr_i + 1))
    /\ wr_pc' = "loop"
    /\ UNCHANGED <<ring_buffer, write_pos, overrun_count, wr_from, wr_tmp,
                   num_samples, src_pos>>
    /\ WriteVarsKept

\* The preemptible write with every single update of write_pos, read_pos
\* and buffered_samples indivisible.
NextAtomic ==
    \/ WrCall
    \/ WrCheck
    \/ WrLeft
    \/ WrRight
    \/ WrPos
    \/ WrIncr
    \/ WrTail
    \/ IsrEnter
    \/ IsrFill
    \/ IsrReturn
    \/ DmaTransfer

SpecAtomic == Init /\ [][NextAtomic]_vars

\* ----------------------------------------------- preemptible clear_buffer
\* audio_out_i2s_clear_buffer taken one statement at a time, as the main loop
\* calls it on disconnect with the transfer running: the transfer-complete
\* interrupt can run between any two statements. wr_pc is the position of
\* the foreground.
ClrVarsKept ==
    UNCHANGED <<current_dma_buffer, is_running, hw_vars, isr_vars, wr_i,
                wr_from, wr_tmp, num_samples, samples_written, handled,
                fresh, api_call, fx_vars, tap_vars>>

\* The call, and write_pos = 0.
ClrWritePos ==
    /\ ForegroundIdle
    /\ write_pos' = 0
    /\ wr_pc' = "clr_read_pos"
    /\ UNCHANGED <<ring_buffer, read_pos, buffered_samples, dma_buffer,
                   underrun_count, overrun_count, src_pos, written, popped,
                   expected, hw_valid>>
    /\ ClrVarsKept

\* read_pos = 0.
ClrReadPos ==
    /\ isr_pc = "idle"
    /\ wr_pc = "clr_read_pos"
    /\ read_pos' = 0
    /\ wr_pc' = "clr_buffered"
    /\ UNCHANGED <<ring_buffer, write_pos, buffered_samples, dma_buffer,
                   underrun_count, overrun_count, src_pos, written, popped,
                   expected, hw_valid>>
    /\ ClrVarsKept

\* buffered_samples = 0.
ClrBuffered ==
    /\ isr_pc = "idle"
    /\ wr_pc = "clr_buffered"
    /\ buffered_samples' = 0
    /\ wr_pc' = "clr_stats"
    /\ UNCHANGED <<ring_buffer, write_pos, read_pos, dma_buffer,
                   underrun_count, overrun_count, src_pos, written, popped,
                   expected, hw_valid>>
    /\ ClrVarsKept

\* underrun_count = 0; overrun_count = 0.
ClrStats ==
    /\ isr_pc = "idle"
    /\ wr_pc = "clr_stats"
    /\ ClearStats
    /\ wr_pc' = "clr_ring"
    /\ UNCHANGED <<ring_buffer, write_pos, read_pos, buffered_samples,
                   dma_buffer, src_pos, written, popped, expected, hw_valid>>
    /\ ClrVarsKept

\* memset(ring_buffer, 0, sizeof(ring_buffer)).
ClrRing ==
    /\ isr_pc = "idle"
    /\ wr_pc = "clr_ring"
    /\ ring_buffer' = [j \in 0..(I2S_BUFFER_SIZE - 1) |-> 0]
    /\ wr_pc' = "clr_dma"
    /\ UNCHANGED <<write_pos, read_pos, buffered_samples, dma_buffer,
                   underrun_count, overrun_count, src_pos, written, popped,
                   expected, hw_valid>>
    /\ ClrVarsKept

\* memset(dma_buffer, 0, sizeof(dma_buffer)), and return; the next
\* connection delivers a new stream.
ClrDma ==
    /\ isr_pc = "idle"
    /\ wr_pc = "clr_dma"
    /\ dma_buffer' = [b \in 0..1 |-> [j \in 0..(I2S_DMA_BUFFER_SIZE - 1) |-> 0]]
    /\ wr_pc' = "idle"
    /\ written' = <<>>
    /\ popped' = 0
    /\ expected' = <<>>
    /\ hw_valid' = FALSE
    /\ src_pos' = 0
    /\ UNCHANGED <<ring_buffer, write_pos, read_pos, buffered_samples,
                   underrun_count, overrun_count>>
    /\ ClrVarsKept

\* Writes run to completion, clear_buffer runs one statement at a time; the
\* interrupt handler runs between any two foreground steps.
NextClearPreempt ==
    \/ Write
    \/ ClrWritePos
    \/ ClrReadPos
    \/ ClrBuffered
    \/ ClrStats
    \/ ClrRing
    \/ ClrDma
    \/ IsrEnter
    \/ IsrFill
    \/ IsrReturn
    \/ DmaTransfer

SpecClearPreempt == Init /\ [][NextClearPreempt]_vars

\* ------------------------------------------------------ Beat-Repeat engine
\* The Kammerl version of the engine (src/src/audio_out_pwm.h, from line 64).

\* C integer division of a by b > 0: the quotient truncated toward zero.
CDiv(a, b) == IF a >= 0 THEN a \div b ELSE -((-a) \div b)

\* uint32_t arithmetic wraps. The model wraps at 2^30: the only wrapped
\* values it produces are small negative differences, and they are only
\* compared with lengths of at most MAX_SLICE_LENGTH.
U32_WRAP == 1073741824
U32(x) == x % U32_WRAP

\* validate_slice_length .. validate_pitch_mode.
validate_slice_length(slice_len) ==
    IF slice_len > MAX_SLICE_LENGTH THEN MAX_SLICE_LENGTH
    ELSE IF slice_len < MIN_SLICE_LENGTH THEN MIN_SLICE_LENGTH
    ELSE slice_len

validate_repeat_count(repeat) ==
    IF repeat < MIN_REPEAT_COUNT THEN MIN_REPEAT_COUNT
    ELSE IF repeat > MAX_REPEAT_COUNT THEN MAX_REPEAT_COUNT
    ELSE repeat

validate_wet_mix(wet) == IF wet > MAX_WET_MIX THEN MAX_WET_MIX ELSE wet

validate_pitch_shift(pitch) ==
    IF pitch < MIN_PITCH_SHIFT THEN MIN_PITCH_SHIFT
    ELSE IF pitch > MAX_PITCH_SHIFT THEN MAX_PITCH_SHIFT
    ELSE pitch

validate_stutter_length(stutter_len) ==
    IF stutter_len < MIN_STUTTER_LENGTH THEN MIN_STUTTER_LENGTH
    ELSE IF stutter_len > MAX_SLICE_LENGTH THEN MAX_SLICE_LENGTH
    ELSE stutter_len

validate_window_shape(window) ==
    IF window < MIN_WINDOW_SHAPE THEN MIN_WINDOW_SHAPE
    ELSE IF window > MAX_WINDOW_SHAPE THEN MAX_WINDOW_SHAPE
    ELSE window

validate_loop_start(loop_start) ==
    IF loop_start < MIN_LOOP_START THEN MIN_LOOP_START
    ELSE IF loop_start > MAX_LOOP_START THEN MAX_LOOP_START
    ELSE loop_start

validate_loop_size_decay(decay) ==
    IF decay < MIN_LOOP_SIZE_DECAY THEN MIN_LOOP_SIZE_DECAY
    ELSE IF decay > MAX_LOOP_SIZE_DECAY THEN MAX_LOOP_SIZE_DECAY
    ELSE decay

validate_slice_select(select) ==
    IF select > MAX_SLICE_SELECT THEN MAX_SLICE_SELECT ELSE select

validate_slice_probability(prob) ==
    IF prob < MIN_SLICE_PROBABILITY THEN MIN_SLICE_PROBABILITY
    ELSE IF prob > MAX_SLICE_PROBABILITY THEN MAX_SLICE_PROBABILITY
    ELSE prob

\* A validation of the divider that clamps it to 1..8 instead of testing
\* the four values.
validate_clock_divider_clamps(divider) ==
    IF divider < 1 THEN 1 ELSE IF divider > 8 THEN 8 ELSE divider

validate_clock_divider(divider) ==
    IF divider = 1 \/ divider = 2 \/ divider = 4 \/ divider = 8
    THEN divider
    ELSE 1

validate_pitch_mode(mode) ==
    IF mode >= PITCH_MODE_FIXED_REVERSE /\ mode <= PITCH_MODE_SCRATCH
    THEN mode
    ELSE PITCH_MODE_FIXED_REVERSE

\* What audio_effect_set_params stores for the struct params.
ValidatedParams(params) ==
    [slice_length |-> validate_slice_length(params.slice_length),
     repeat_count |-> validate_repeat_count(params.repeat_count),
     wet_mix |-> validate_wet_mix(params.wet_mix),
     pitch_shift |-> validate_pitch_shift(params.pitch_shift),
     stutter_slice_length |-> validate_stutter_length(params.stutter_slice_length),
     window_shape |-> validate_window_shape(params.window_shape),
     loop_start |-> validate_loop_start(params.loop_start),
     loop_size_decay |-> validate_loop_size_decay(params.loop_size_decay),
     slice_select |-> validate_slice_select(params.slice_select),
     slice_probability |-> validate_slice_probability(params.slice_probability),
     clock_divider |-> validate_clock_divider(params.clock_divider),
     pitch_mode |-> validate_pitch_mode(params.pitch_mode),
     enabled |-> params.enabled,
     reverse |-> params.reverse,
     stutter_enabled |-> params.stutter_enabled,
     freeze |-> params.freeze]

\* ------------------------------------------------ the structs set_params gets
\* A struct with a short slice (stutter 64 frames, divider 8: 8 frames), so
\* that a run captures a slice and replays it; fully wet, two repeats.
ShortParams ==
    [slice_length |-> MIN_SLICE_LENGTH,
     repeat_count |-> 2,
     wet_mix |-> MAX_WET_MIX,
     enabled |-> TRUE,
     pitch_shift |-> 100,
     reverse |-> FALSE,
     stutter_enabled |-> TRUE,
     stutter_slice_length |-> MIN_STUTTER_LENGTH,
     window_shape |-> 0,
     loop_start |-> 0,
     loop_size_decay |-> 0,
     slice_select |-> 0,
     slice_probability |-> 100,
     clock_divider |-> 8,
     pitch_mode |-> PITCH_MODE_FIXED_REVERSE,
     freeze |-> FALSE]

\* A struct with every clamped field out of its range.
WildParams ==
    [slice_length |-> 2147483647,
     repeat_count |-> 255,
     wet_mix |-> 255,
     enabled |-> TRUE,
     pitch_shift |-> 500,
     reverse |-> TRUE,
     stutter_enabled |-> TRUE,
     stutter_slice_length |-> 0,
     window_shape |-> 150,
     loop_start |-> 150,
     loop_size_decay |-> 150,
     slice_select |-> 255,
     slice_probability |-> 150,
     clock_divider |-> 0,
     pitch_mode |-> 7,
     freeze |-> FALSE]

\* The values tried for each field: its bounds, their neighbours and the
\* ends of its C type (uint32_t values stop at 2^31 - 1 here).
SliceLengthInputs ==
    {0, 1, 127, 128, 129, 11025, 22050, 44099, 44100, 44101, 88200, 2147483647}
StutterLengthInputs ==
    {0, 1, 63, 64, 65, 441, 44099, 44100, 44101, 2147483647}
RepeatCountInputs == {0, 1, 4, 8, 15, 16, 17, 128, 255}
WetMixInputs == {0, 1, 50, 99, 100, 101, 200, 255}
SliceSelectInputs == {0, 1, 2, 255}
ClockDividerInputs == {0, 1, 2, 3, 4, 5, 7, 8, 9, 16, 255}
PitchShiftInputs == {0, 25, 50, 200, 400, 500}
LoopStartInputs == {50, 100, 150}
LoopSizeDecayInputs == {50, 100}
WindowShapeInputs == {50, 100}

\* The structs passed to audio_effect_set_params: ShortParams with one field
\* replaced, a few combinations, and the struct that is wrong everywhere.
ParamInputs ==
    {[ShortParams EXCEPT !.slice_length = v, !.stutter_enabled = FALSE] :
        v \in SliceLengthInputs}
    \cup {[ShortParams EXCEPT !.stutter_slice_length = v] : v \in StutterLengthInputs}
    \cup {[ShortParams EXCEPT !.repeat_count = v] : v \in RepeatCountInputs}
    \cup {[ShortParams EXCEPT !.wet_mix = v] : v \in WetMixInputs}
    \cup {[ShortParams EXCEPT !.slice_select = v] : v \in SliceSelectInputs}
    \cup {[ShortParams EXCEPT !.clock_divider = v] : v \in ClockDividerInputs}
    \cup {[ShortParams EXCEPT !.pitch_shift = v] : v \in PitchShiftInputs}
    \cup {[ShortParams EXCEPT !.loop_start = v] : v \in LoopStartInputs}
    \cup {[ShortParams EXCEPT !.loop_size_decay = v] : v \in LoopSizeDecayInputs}
    \cup {[ShortParams EXCEPT !.window_shape = v] : v \in WindowShapeInputs}
    \cup {[ShortParams EXCEPT !.enabled = FALSE],
          [ShortParams EXCEPT !.reverse = TRUE],
          [ShortParams EXCEPT !.freeze = TRUE],
          [ShortParams EXCEPT !.slice_probability = 0],
          WildParams, DefaultParams}

\* The structs passed while blocks are processed: few, each with a slice
\* short enough to be captured and replayed within the run.
PlayParams ==
    {ShortParams,
     [ShortParams EXCEPT !.wet_mix = 0],
     [ShortParams EXCEPT !.wet_mix = 50, !.window_shape = 50],
     [ShortParams EXCEPT !.reverse = TRUE],
     [ShortParams EXCEPT !.reverse = TRUE, !.loop_start = 100],
     [ShortParams EXCEPT !.loop_start = 50, !.pitch_shift = 200],
     [ShortParams EXCEPT !.reverse = TRUE, !.loop_size_decay = 100,
                         !.repeat_count = 16, !.pitch_shift = 400],
     [ShortParams EXCEPT !.slice_select = 1],
     [ShortParams EXCEPT !.enabled = FALSE],
     [ShortParams EXCEPT !.freeze = TRUE],
     [ShortParams EXCEPT !.slice_probability = 0],
     [ShortParams EXCEPT !.stutter_enabled = FALSE]}

\* The structs passed while blocks are processed in the pitch modes and
\* with a probability gate that draws (the first draws of the generator are
\* 0.606 and 0.775): loops of 8, 4 and 0 frames.
ModeParams ==
    {ShortParams,
     [ShortParams EXCEPT !.freeze = TRUE],
     [ShortParams EXCEPT !.slice_probability = 0],
     [ShortParams EXCEPT !.slice_probability = 50],
     [ShortParams EXCEPT !.slice_probability = 80],
     [ShortParams EXCEPT !.pitch_mode = PITCH_MODE_DECREASING],
     [ShortParams EXCEPT !.pitch_mode = PITCH_MODE_INCREASING,
                         !.loop_start = 50],
     [ShortParams EXCEPT !.pitch_mode = PITCH_MODE_DECREASING,
                         !.loop_start = 100]}

\* audio_effect_set_params(&params) for a struct of the set inputs.
SetParamsFrom(inputs) ==
    /\ \E params \in inputs :
         /\ current_params' = ValidatedParams(params)
         /\ params_in' = {params}
    /\ params_out' = {}
    /\ fx_call' = "set_params"
    /\ UNCHANGED <<fx_engine_vars, data_in, data, num_channels, fx_pos>>
    /\ UNCHANGED <<driver_vars, api_call, tap_vars>>

\* audio_effect_set_params with any struct; the calls are not counted.
SetParams ==
    /\ SetParamsFrom(ParamInputs)
    /\ UNCHANGED set_calls

\* audio_effect_set_params with a struct that plays.
SetPlayParams ==
    /\ set_calls < MaxSetParams
    /\ set_calls' = set_calls + 1
    /\ SetParamsFrom(PlayParams)

\* audio_effect_set_params with a struct of ModeParams.
SetModeParams ==
    /\ set_calls < MaxSetParams
    /\ set_calls' = set_calls + 1
    /\ SetParamsFrom(ModeParams)

\* audio_effect_get_params(&params): *params = current_params.
GetParams ==
    /\ params_out' = {current_params}
    /\ fx_call' = "get_params"
    /\ UNCHANGED <<current_params, fx_engine_vars, params_in, set_calls,
                   data_in, data, num_channels, fx_pos>>
    /\ UNCHANGED <<driver_vars, api_call, tap_vars>>

\* The parameter interface alone.
NextParams ==
    \/ SetParams
    \/ GetParams

SpecParams == Init /\ [][NextParams]_vars

\* ---------------------------------------------------------------- process
\* The input stream of the effect: frame k (from 0) as <<left, right>>,
\* taken round a table that holds both ends of int16_t.
SampleTable == <<32767, -32768, 12345, -1, 7, -20001, 100>>
FxFrame(k) ==
    <<SampleTable[(k % 7) + 1], SampleTable[((3 * k + 1) % 7) + 1]>>

\* The block of n frames that starts at frame from of the stream.
FxBlock(from, n) == [i \in 1..n |-> FxFrame(from + i - 1)]

\* The engine's state as one value, for the operators below.
Engine ==
    [slice_buffer |-> slice_buffer,
     multi_slice_buffer |-> multi_slice_buffer,
     multi_slice_lengths |-> multi_slice_lengths,
     current_slice_index |-> current_slice_index,
     slice_write_pos |-> slice_write_pos,
     slice_read_pos_f |-> slice_read_pos_f,
     repeat_counter |-> repeat_counter,
     is_repeating |-> is_repeating,
     random_state |-> random_state,
     zero_divisor |-> zero_divisor]

\* buf[idx] of a slice array: a slot no run writes holds the 0 of init.
SliceAt(buf, idx) == IF idx \in DOMAIN buf THEN buf[idx] ELSE 0

\* A mix that divides by 128 (a shift) instead of by MAX_WET_MIX.
mix_samples_shift(dry, wet, wet_percent) ==
    LET dry_part == CDiv(dry * (MAX_WET_MIX - wet_percent), 128)
        wet_part == CDiv(wet * wet_percent, 128)
        result == dry_part + wet_part
    IN  IF result > SAMPLE_MAX THEN SAMPLE_MAX
        ELSE IF result < SAMPLE_MIN THEN SAMPLE_MIN
        ELSE result

\* mix_samples: both parts in int32_t, each divided with C's truncation.
mix_samples(dry, wet, wet_percent) ==
    LET dry_part == CDiv(dry * (MAX_WET_MIX - wet_percent), MAX_WET_MIX)
        wet_part == CDiv(wet * wet_percent, MAX_WET_MIX)
        result == dry_part + wet_part
    IN  IF result > SAMPLE_MAX THEN SAMPLE_MAX
        ELSE IF result < SAMPLE_MIN THEN SAMPLE_MIN
        ELSE result

\* write_to_slice_buffer. A store beyond the slots of slice_buffer the model
\* keeps changes none of them.
write_to_slice_buffer(e, input_l, input_r) ==
    LET buf_idx == e.slice_write_pos * STEREO_CHANNELS
    IN  IF buf_idx \in SliceSlots
        THEN [e EXCEPT !.slice_buffer = [@ EXCEPT ![buf_idx] = input_l,
                                                  ![buf_idx + 1] = input_r],
                       !.slice_write_pos = @ + 1]
        ELSE [e EXCEPT !.slice_write_pos = @ + 1]

\* save_slice_to_multi_buffer: the first slice_length frames of
\* slice_buffer are copied to the next row.
save_slice_to_multi_buffer(e, slice_length) ==
    LET idx == (e.current_slice_index + 1) % NUM_SLICES
    IN  [e EXCEPT !.current_slice_index = idx,
                  !.multi_slice_buffer[idx] =
                      [j \in SliceSlots |->
                          IF j < slice_length * STEREO_CHANNELS
                          THEN e.slice_buffer[j]
                          ELSE @[j]],
                  !.multi_slice_lengths[idx] = slice_length]

\* read_from_multi_slice, ch_offset 0 for the left channel.
read_from_multi_slice(e, slice_idx, pos, ch_offset) ==
    LET actual_idx == (e.current_slice_index - slice_idx + NUM_SLICES) % NUM_SLICES
        slice_len == e.multi_slice_lengths[actual_idx]
    IN  IF slice_len = 0 \/ pos >= slice_len
        THEN 0
        ELSE SliceAt(e.multi_slice_buffer[actual_idx],
                     pos * STEREO_CHANNELS + ch_offset)

\* (x + y) & 0x7FFFFFFF for x and y below 2^31, without a sum beyond it.
AddMasked(x, y) ==
    IF x > RANDOM_MASK - y THEN x - (RANDOM_MASK - y) - 1 ELSE x + y

\* (x * y) & 0x7FFFFFFF, the uint32_t product masked: the product of the
\* 11-bit limbs of x and y, the limbs beyond bit 30 dropped.
MulMasked(x, y) ==
    LET x0 == x % 2048
        x1 == (x \div 2048) % 2048
        x2 == x \div 4194304
        y0 == y % 2048
        y1 == (y \div 2048) % 2048
        y2 == y \div 4194304
        t0 == x0 * y0
        t1 == ((x0 * y1 + x1 * y0) % 1048576) * 2048
        t2 == ((x0 * y2 + x1 * y1 + x2 * y0) % 512) * 4194304
    IN  AddMasked(AddMasked(t0, t1), t2)

\* random_state = (random_state * 1103515245 + 12345) & 0x7FFFFFFF.
NextRandom(rs) ==
    AddMasked(MulMasked(rs, RANDOM_MULTIPLIER), RANDOM_INCREMENT)

\* check_slice_probability: whether the slice is played and the
\* random_state the call leaves. The draw is taken only for a probability
\* strictly between 0 and 1; random_val < probability compares the
\* thousandths drawn with the hundredths stored (the probabilities the model
\* stores, 0, 0.5 and 1, are exact floats).
check_slice_probability(rs, pr) ==
    IF pr.slice_probability >= MAX_SLICE_PROBABILITY
    THEN [pass |-> TRUE, random_state |-> rs]
    ELSE IF pr.slice_probability <= MIN_SLICE_PROBABILITY
    THEN [pass |-> FALSE, random_state |-> rs]
    ELSE [pass |-> (NextRandom(rs) % 1000) * FX_UNIT
                       < pr.slice_probability * 1000,
          random_state |-> NextRandom(rs)]

\* A float is finite.
Finite(x) == x # F_NAN /\ x # F_INF /\ x # -F_INF

\* x + y of two floats.
FAdd(x, y) ==
    IF x = F_NAN \/ y = F_NAN THEN F_NAN
    ELSE IF ~Finite(x) THEN (IF ~Finite(y) /\ y # x THEN F_NAN ELSE x)
    ELSE IF ~Finite(y) THEN y
    ELSE x + y

\* x >= y of two floats, y finite: false for a NaN.
FGe(x, y) == x # F_NAN /\ x >= y

\* The value taken for (uint32_t)x when x is NaN, infinite or negative and
\* the conversion is undefined, if it is not 0: a value beyond every
\* length.
U32_BIG == 1048575

\* (uint32_t)x of the float x.
FloatToU32(x, ub) ==
    IF Finite(x) /\ x >= 0 THEN x \div POS_UNIT
    ELSE IF ub = 0 THEN 0 ELSE U32_BIG

\* calculate_pitch_for_mode, in 1/POS_UNIT: normalized_pos is pos / length
\* in float, NaN for 0 / 0 and infinite for any other pos / 0. The ramps are
\* exact for the loop lengths of the structs the model processes in these
\* modes (powers of two). PITCH_MODE_SCRATCH, whose multiplier is a sine, is
\* in no struct the model processes.
calculate_pitch_for_mode(pr, pos, length) ==
    IF pr.pitch_mode = PITCH_MODE_DECREASING
    THEN IF length = 0
         THEN (IF pos = 0 THEN F_NAN ELSE -F_INF)
         ELSE POS_UNIT - (pos * POS_UNIT) \div (2 * length)
    ELSE IF pr.pitch_mode = PITCH_MODE_INCREASING
    THEN IF length = 0
         THEN (IF pos = 0 THEN F_NAN ELSE F_INF)
         ELSE POS_UNIT \div 2 + (pos * POS_UNIT) \div (2 * length)
    ELSE pr.pitch_shift * (POS_UNIT \div FX_UNIT)

\* A loop range whose end is not clipped to the end of the slice.
calculate_loop_range_unclipped(slice_length, pr, rc) ==
    LET loop_start_pos == (slice_length * pr.loop_start) \div FX_UNIT
        num == FX_UNIT * pr.repeat_count - pr.loop_size_decay * rc
        den == FX_UNIT * pr.repeat_count
        effective_length ==
            IF 10 * num < den
            THEN slice_length \div 10
            ELSE (slice_length * num) \div den
    IN  <<loop_start_pos,
          IF pr.loop_size_decay > 0
          THEN loop_start_pos + effective_length
          ELSE slice_length>>

\* calculate_loop_range: <<loop_start_pos, loop_end_pos>>. decay_factor is
\* the fraction num / den, below 0.1 when 10 * num < den.
calculate_loop_range(slice_length, pr, rc) ==
    LET loop_start_pos == (slice_length * pr.loop_start) \div FX_UNIT
        num == FX_UNIT * pr.repeat_count - pr.loop_size_decay * rc
        den == FX_UNIT * pr.repeat_count
        effective_length ==
            IF 10 * num < den
            THEN slice_length \div 10
            ELSE (slice_length * num) \div den
        loop_end_pos ==
            IF pr.loop_size_decay > 0
            THEN IF loop_start_pos + effective_length > slice_length
                 THEN slice_length
                 ELSE loop_start_pos + effective_length
            ELSE slice_length
    IN  <<loop_start_pos, loop_end_pos>>

\* get_window_envelope as the fraction <<numerator, denominator>>. length
\* - pos is a uint32_t difference.
get_window_envelope(pos, length, window_shape) ==
    LET fade_len == (length * window_shape) \div FX_UNIT
    IN  IF window_shape <= 0 THEN <<1, 1>>
        ELSE IF fade_len = 0 THEN <<1, 1>>
        ELSE IF pos < fade_len THEN <<pos, fade_len>>
        ELSE IF pos >= length - fade_len THEN <<U32(length - pos), fade_len>>
        ELSE <<1, 1>>

\* The outcomes taken for a step C leaves undefined: 0 or 1 selects, for a
\* modulo by zero, a remainder of 0 or of the dividend (what the core's
\* UDIV leaves), and for a float beyond int16_t converted to it, 0 or -1.
UbOutcomes == {0, 1}

\* (int16_t)((float)sample * envelope).
ApplyEnvelope(sample, envelope, ub) ==
    IF envelope[1] > envelope[2]
    THEN IF sample = 0 THEN 0 ELSE -ub
    ELSE CDiv(sample * envelope[1], envelope[2])

\* F applied to the value of v, with v evaluated once.
Bind(v, F(_)) == CHOOSE r \in {F(x) : x \in {v}} : TRUE

\* A first part that starts a repeat without looking at freeze.
CaptureFrameIgnoresFreeze(e, pr, active_slice_length, input) ==
    Bind(write_to_slice_buffer(e, input[1], input[2]), LAMBDA e1 :
        IF e1.slice_write_pos >= active_slice_length
        THEN Bind(save_slice_to_multi_buffer(
                      [e1 EXCEPT !.slice_write_pos = 0], active_slice_length),
                  LAMBDA e2 :
                      IF ~e2.is_repeating
                      THEN Bind(check_slice_probability(e2.random_state, pr),
                                LAMBDA gate :
                                    IF gate.pass
                                    THEN [e2 EXCEPT
                                             !.is_repeating = TRUE,
                                             !.slice_read_pos_f = 0,
                                             !.repeat_counter = 0,
                                             !.random_state = gate.random_state]
                                    ELSE [e2 EXCEPT
                                             !.random_state = gate.random_state])
                      ELSE e2)
        ELSE e1)

\* A first part that wraps the cursor only beyond the slice length.
CaptureFrameWrapsLate(e, pr, active_slice_length, input) ==
    Bind(write_to_slice_buffer(e, input[1], input[2]), LAMBDA e1 :
        IF e1.slice_write_pos > active_slice_length
        THEN Bind(save_slice_to_multi_buffer(
                      [e1 EXCEPT !.slice_write_pos = 0], active_slice_length),
                  LAMBDA e2 :
                      IF ~e2.is_repeating /\ ~pr.freeze
                      THEN Bind(check_slice_probability(e2.random_state, pr),
                                LAMBDA gate :
                                    IF gate.pass
                                    THEN [e2 EXCEPT
                                             !.is_repeating = TRUE,
                                             !.slice_read_pos_f = 0,
                                             !.repeat_counter = 0,
                                             !.random_state = gate.random_state]
                                    ELSE [e2 EXCEPT
                                             !.random_state = gate.random_state])
                      ELSE e2)
        ELSE e1)

\* The first part of a pass of the loop of audio_effect_process, lines
\* 722 to 741: the frame is captured; a full slice is saved and, unless the
\* engine repeats already or is frozen, starts a repeat if the probability
\* gate passes.
CaptureFrame(e, pr, active_slice_length, input) ==
    Bind(write_to_slice_buffer(e, input[1], input[2]), LAMBDA e1 :
        IF e1.slice_write_pos >= active_slice_length
        THEN Bind(save_slice_to_multi_buffer(
                      [e1 EXCEPT !.slice_write_pos = 0], active_slice_length),
                  LAMBDA e2 :
                      IF ~e2.is_repeating /\ ~pr.freeze
                      THEN Bind(check_slice_probability(e2.random_state, pr),
                                LAMBDA gate :
                                    IF gate.pass
                                    THEN [e2 EXCEPT
                                             !.is_repeating = TRUE,
                                             !.slice_read_pos_f = 0,
                                             !.repeat_counter = 0,
                                             !.random_state = gate.random_state]
                                    ELSE [e2 EXCEPT
                                             !.random_state = gate.random_state])
                      ELSE e2)
        ELSE e1)

\* The second part, lines 743 to 831, on the engine e3 the first part
\* left: the engine the pass leaves, the frame it writes back, whether the
\* engine was repeating at the is_repeating test and the slice sample that
\* was mixed in.
RepeatFrame(e3, pr, active_slice_length, input, ub) ==
    LET range == calculate_loop_range(active_slice_length, pr, e3.repeat_counter)
        loop_start == range[1]
        loop_end == range[2]
        effective_loop_length == loop_end - loop_start
        pos == FloatToU32(e3.slice_read_pos_f, ub)
        shifted == FAdd(e3.slice_read_pos_f, loop_start * POS_UNIT)
        adjusted_read_pos ==
            IF FGe(shifted, loop_end * POS_UNIT)
            THEN loop_start * POS_UNIT
            ELSE shifted
        pitch_mult == calculate_pitch_for_mode(pr, pos, effective_loop_length)
        remainder ==
            IF effective_loop_length = 0
            THEN IF ub = 0 THEN 0 ELSE pos
            ELSE pos % effective_loop_length
        read_idx ==
            IF pr.reverse
            THEN U32(loop_end - 1 - remainder)
            ELSE FloatToU32(adjusted_read_pos, ub)
        slice_sample ==
            IF pr.slice_select = 0
            THEN IF read_idx < active_slice_length
                 THEN <<SliceAt(e3.slice_buffer, read_idx * STEREO_CHANNELS),
                        SliceAt(e3.slice_buffer, read_idx * STEREO_CHANNELS + 1)>>
                 ELSE <<0, 0>>
            ELSE <<read_from_multi_slice(e3, pr.slice_select, read_idx, 0),
                   read_from_multi_slice(e3, pr.slice_select, read_idx, 1)>>
        envelope == get_window_envelope(pos, effective_loop_length, pr.window_shape)
        repeat ==
            IF pr.window_shape > 0
            THEN <<ApplyEnvelope(slice_sample[1], envelope, ub),
                   ApplyEnvelope(slice_sample[2], envelope, ub)>>
            ELSE slice_sample
        moved == FAdd(e3.slice_read_pos_f, pitch_mult)
        at_end == FGe(moved, effective_loop_length * POS_UNIT)
        zd == e3.zero_divisor \/ (pr.reverse /\ effective_loop_length = 0)
        e4 == IF ~at_end
              THEN [e3 EXCEPT !.slice_read_pos_f = moved, !.zero_divisor = zd]
              ELSE IF pr.freeze
              THEN [e3 EXCEPT !.slice_read_pos_f = 0, !.zero_divisor = zd]
              ELSE IF e3.repeat_counter + 1 >= pr.repeat_count
              THEN [e3 EXCEPT !.slice_read_pos_f = 0,
                              !.repeat_counter = 0,
                              !.is_repeating = FALSE,
                              !.zero_divisor = zd]
              ELSE [e3 EXCEPT !.slice_read_pos_f = 0,
                              !.repeat_counter = @ + 1,
                              !.zero_divisor = zd]
    IN  IF e3.is_repeating
        THEN Bind(repeat, LAMBDA rep :
                 [e |-> e4,
                  out |-> <<mix_samples(input[1], rep[1], pr.wet_mix),
                            mix_samples(input[2], rep[2], pr.wet_mix)>>,
                  repeating |-> TRUE,
                  repeat |-> rep])
        ELSE [e |-> e3, out |-> input, repeating |-> FALSE, repeat |-> <<0, 0>>]

\* One pass of the loop of audio_effect_process on the frame input.
ProcessFrame(e, pr, active_slice_length, input, ub) ==
    Bind(CaptureFrame(e, pr, active_slice_length, input), LAMBDA e3 :
        RepeatFrame(e3, pr, active_slice_length, input, ub))

\* The loop of audio_effect_process from frame i of the block on: the
\* engine and the block it leaves.
RECURSIVE ProcessLoop(_, _, _, _, _, _)
ProcessLoop(e, pr, active_slice_length, block, i, ub) ==
    IF i > Len(block)
    THEN [e |-> e, data |-> block]
    ELSE Bind(ProcessFrame(e, pr, active_slice_length, block[i], ub),
              LAMBDA r :
                  ProcessLoop(r.e, pr, active_slice_length,
                              [block EXCEPT ![i] = r.out], i + 1, ub))

\* An early return taken only for a block that is not stereo.
ProcessReturnsEarlyIgnoresEnabled(ch, pr) == ch # STEREO_CHANNELS

\* The two early returns of audio_effect_process (the module is initialised
\* and data is not NULL).
ProcessReturnsEarly(ch, pr) == ch # STEREO_CHANNELS \/ ~pr.enabled

\* The slice length of a call: the stutter or the slice length, divided by
\* the clock divider.
ActiveSliceLength(pr) ==
    (IF pr.stutter_enabled THEN pr.stutter_slice_length ELSE pr.slice_length)
        \div pr.clock_divider

\* audio_effect_process(data, Len(block), ch) on the frames block, the next
\* of the stream. The stream moves on by the frames the engine takes in: a
\* call that returns early is handed frames that the next call is handed
\* again.
ProcessBlock(block, ch, ub) ==
    /\ data_in' = block
    /\ num_channels' = ch
    /\ IF ProcessReturnsEarly(ch, current_params)
       THEN /\ data' = block
            /\ fx_pos' = fx_pos
            /\ UNCHANGED fx_engine_vars
       ELSE /\ fx_pos' = fx_pos + Len(block)
            /\ \E r \in {ProcessLoop(Engine, current_params,
                                     ActiveSliceLength(current_params),
                                     block, 1, ub)} :
                   /\ data' = r.data
                   /\ slice_buffer' = r.e.slice_buffer
                   /\ multi_slice_buffer' = r.e.multi_slice_buffer
                   /\ multi_slice_lengths' = r.e.multi_slice_lengths
                   /\ current_slice_index' = r.e.current_slice_index
                   /\ slice_write_pos' = r.e.slice_write_pos
                   /\ slice_read_pos_f' = r.e.slice_read_pos_f
                   /\ repeat_counter' = r.e.repeat_counter
                   /\ is_repeating' = r.e.is_repeating
                   /\ random_state' = r.e.random_state
                   /\ zero_divisor' = r.e.zero_divisor
    /\ fx_call' = "process"
    /\ UNCHANGED <<current_params, params_in, params_out, set_calls>>
    /\ UNCHANGED <<driver_vars, api_call, tap_vars>>

\* audio_effect_process(data, n, ch) on the next n frames of the stream.
Process ==
    \E n \in 1..MaxBlock, ch \in {1, STEREO_CHANNELS}, ub \in UbOutcomes :
        /\ fx_pos + n <= MaxFxFrames
        /\ ProcessBlock(FxBlock(fx_pos, n), ch, ub)

\* The calls of the effect module while audio plays, in any order.
NextEffect ==
    \/ SetPlayParams
    \/ Process

SpecEffect == Init /\ [][NextEffect]_vars

\* The calls of the effect module while audio plays in the pitch modes.
NextModes ==
    \/ SetModeParams
    \/ Process

SpecModes == Init /\ [][NextModes]_vars

\* The structs passed while blocks are processed at fractional pitch: half
\* and quarter speed forward, half speed in reverse, and a windowed half
\* loop that a call during a repeat of ShortParams shortens the loop to.
PitchParams ==
    {ShortParams,
     [ShortParams EXCEPT !.pitch_shift = 50],
     [ShortParams EXCEPT !.pitch_shift = MIN_PITCH_SHIFT],
     [ShortParams EXCEPT !.pitch_shift = 50, !.reverse = TRUE],
     [ShortParams EXCEPT !.loop_start = 50, !.window_shape = MAX_WINDOW_SHAPE]}

\* audio_effect_set_params with a struct of PitchParams.
SetPitchParams ==
    /\ set_calls < MaxSetParams
    /\ set_calls' = set_calls + 1
    /\ SetParamsFrom(PitchParams)

\* The calls of the effect module while audio plays at fractional pitch.
NextPitch ==
    \/ SetPitchParams
    \/ Process

SpecPitch == Init /\ [][NextPitch]_vars

\* ----------------------------------------------------- the decaying loop
\* The structs passed to study the loop range: slice lengths from the
\* shortest to the longest storable, every clock divider, and loop starts,
\* decays and repeat counts whose float arithmetic is exact (quarters and
\* powers of two).
DecayLengths == {MIN_SLICE_LENGTH, 1000, 4410, MAX_SLICE_LENGTH}
DecayParams ==
    {[ShortParams EXCEPT !.stutter_enabled = FALSE,
                         !.slice_length = len,
                         !.clock_divider = div,
                         !.loop_start = ls,
                         !.loop_size_decay = dc,
                         !.repeat_count = rc] :
        len \in DecayLengths, div \in {1, 8},
        ls \in {0, 25, 50, 75, MAX_LOOP_START},
        dc \in {25, 50, 75, MAX_LOOP_SIZE_DECAY},
        rc \in {1, 2, 4, 8, MAX_REPEAT_COUNT}}

\* audio_effect_set_params with a struct of DecayParams.
SetDecayParams ==
    /\ SetParamsFrom(DecayParams)
    /\ UNCHANGED set_calls

\* The parameter interface with the structs of DecayParams.
NextDecay ==
    \/ SetDecayParams
    \/ GetParams

SpecDecay == Init /\ [][NextDecay]_vars

\* ------------------------------------------------ one repeat of a pattern
\* Frames handed to audio_effect_process in a run of the pattern.
MaxPatternFrames == 36

\* Structs that play each captured slice once, fully wet, forward, at pitch
\* 1.0 and without window, loop offset or decay: active slice lengths 8,
\* 16 and 16.
OnceParams ==
    {[ShortParams EXCEPT !.repeat_count = 1],
     [ShortParams EXCEPT !.repeat_count = 1, !.clock_divider = 4],
     [ShortParams EXCEPT !.repeat_count = 1, !.stutter_enabled = FALSE]}

\* Frame k (from 0) of a stream that holds len frames of a pattern without
\* a zero, the same in both channels, and silence after them.
PatternFrame(k, len) == IF k < len THEN <<k + 1, k + 1>> ELSE <<0, 0>>

PatternBlock(from, n, len) == [i \in 1..n |-> PatternFrame(from + i - 1, len)]

\* audio_effect_set_params with a struct of OnceParams, as the first call
\* after audio_effect_init.
SetOnceParams ==
    /\ fx_call = "none"
    /\ set_calls' = set_calls + 1
    /\ SetParamsFrom(OnceParams)

\* audio_effect_process on the next frames of the pattern stream, whose
\* pattern is as long as the active slice.
ProcessPattern ==
    /\ fx_call # "none"
    /\ \E n \in 1..MaxBlock, ch \in {1, STEREO_CHANNELS}, ub \in UbOutcomes :
         /\ fx_pos + n <= MaxPatternFrames
         /\ ProcessBlock(PatternBlock(fx_pos, n, ActiveSliceLength(current_params)),
                         ch, ub)

NextOnce ==
    \/ SetOnceParams
    \/ ProcessPattern

SpecOnce == Init /\ [][NextOnce]_vars

\* Structs that play the 8 frames of a captured slice fully wet and without
\* window at the ends and inside the range of pitch_shift, forward and in
\* reverse.
OncePitchParams ==
    {[ShortParams EXCEPT !.pitch_shift = p, !.reverse = rev] :
        p \in {MIN_PITCH_SHIFT, 50, 100, MAX_PITCH_SHIFT},
        rev \in BOOLEAN}

\* audio_effect_set_params with a struct of OncePitchParams, as the first
\* call after audio_effect_init.
SetOncePitchParams ==
    /\ fx_call = "none"
    /\ set_calls' = set_calls + 1
    /\ SetParamsFrom(OncePitchParams)

NextOncePitch ==
    \/ SetOncePitchParams
    \/ ProcessPattern

SpecOncePitch == Init /\ [][NextOncePitch]_vars

\* ------------------------------------------------------ the capture cursor
\* Frames handed to audio_effect_process in recorded blocks in a run of the
\* capture cursor, and the most frames a silent run leaves before the slice
\* is full.
MaxCursorFrames == 5
MaxBefore == 2

\* Structs of the shortest and of the longest slices: active slice lengths
\* 8, MAX_SLICE_LENGTH (from a slice_length beyond it, with and without a
\* repeat at the wrap) and MAX_SLICE_LENGTH / 2.
CursorParams ==
    {ShortParams,
     [ShortParams EXCEPT !.stutter_enabled = FALSE,
                         !.slice_length = MAX_SLICE_LENGTH + 5900,
                         !.clock_divider = 1],
     [ShortParams EXCEPT !.stutter_enabled = FALSE,
                         !.slice_length = MAX_SLICE_LENGTH,
                         !.clock_divider = 1,
                         !.slice_probability = 0],
     [ShortParams EXCEPT !.stutter_slice_length = MAX_SLICE_LENGTH,
                         !.clock_divider = 2]}

\* audio_effect_set_params with a struct of CursorParams.
SetCursorParams ==
    /\ set_calls < MaxSetParams
    /\ set_calls' = set_calls + 1
    /\ SetParamsFrom(CursorParams)

\* A block of n silent frames.
SilentBlock(n) == [i \in 1..n |-> <<0, 0>>]

\* audio_effect_process on a block of 1 to MaxBlock frames: the next frames
\* of the stream while the cursor is within the slots of slice_buffer the
\* model keeps, silent frames beyond them (a slot the model does not keep
\* holds 0).
ProcessCursor ==
    \E n \in 1..MaxBlock, ch \in {1, STEREO_CHANNELS}, ub \in UbOutcomes :
        /\ fx_pos + n <= MaxCursorFrames
        /\ ProcessBlock(IF slice_write_pos + n <= MaxFxFrames
                        THEN FxBlock(fx_pos, n) ELSE SilentBlock(n), ch, ub)

\* audio_effect_process on stereo blocks of silence, as many frames as leave
\* the slice k frames short of full, with the engine not repeating: each
\* pass of the loop stores the silent frame at the cursor, advances the
\* cursor (line 722), finds the slice not full (line 725) and the engine
\* not repeating (line 744) and writes the frame back. The blocks of a
\* silent run are not recorded.
SilentRun ==
    \E k \in 1..MaxBefore :
        LET n == ActiveSliceLength(current_params) - k - slice_write_pos
        IN  /\ ~ProcessReturnsEarly(STEREO_CHANNELS, current_params)
            /\ ~is_repeating
            /\ n >= 1
            /\ slice_buffer' =
                   [j \in SliceSlots |->
                       IF /\ j >= slice_write_pos * STEREO_CHANNELS
                          /\ j < (slice_write_pos + n) * STEREO_CHANNELS
                       THEN 0 ELSE slice_buffer[j]]
            /\ slice_write_pos' = slice_write_pos + n
            /\ data_in' = <<>>
            /\ data' = <<>>
            /\ num_channels' = STEREO_CHANNELS
            /\ fx_call' = "process"
            /\ UNCHANGED <<multi_slice_buffer, multi_slice_lengths,
                           current_slice_index, slice_read_pos_f,
                           repeat_counter, is_repeating, random_state,
                           zero_divisor, fx_pos>>
            /\ UNCHANGED <<current_params, params_in, params_out, set_calls>>
            /\ UNCHANGED <<driver_vars, api_call, tap_vars>>

\* audio_effect_reset(): buffers, positions and counters zeroed; the
\* parameters and the generator's state are kept.
audio_effect_reset ==
    /\ slice_buffer' = [j \in SliceSlots |-> 0]
    /\ multi_slice_buffer' =
           [s \in 0..(NUM_SLICES - 1) |-> [j \in SliceSlots |-> 0]]
    /\ multi_slice_lengths' = [s \in 0..(NUM_SLICES - 1) |-> 0]
    /\ slice_write_pos' = 0
    /\ slice_read_pos_f' = 0
    /\ repeat_counter' = 0
    /\ is_repeating' = FALSE
    /\ current_slice_index' = 0
    /\ fx_call' = "reset"
    /\ UNCHANGED <<random_state, zero_divisor, current_params, params_in,
                   params_out, set_calls, data_in, data, num_channels,
                   fx_pos>>
    /\ UNCHANGED <<driver_vars, api_call, tap_vars>>

\* set_params, process and reset in any order.
NextCursor ==
    \/ SetCursorParams
    \/ ProcessCursor
    \/ SilentRun
    \/ audio_effect_reset

SpecCursor == Init /\ [][NextCursor]_vars

\* set_params with the structs of ModeParams, process and reset in any
\* order.
NextReset ==
    \/ SetModeParams
    \/ Process
    \/ audio_effect_reset

SpecReset == Init /\ [][NextReset]_vars

\* ------------------------------------------------------------- tap tempo
\* Time passes between two calls of the module: 400 ms, or one millisecond
\* more than the timeout.
Tick ==
    /\ \E dt \in {400, TAP_TIMEOUT_MS + 1} :
         /\ now_ms + dt <= MaxTapTime
         /\ now_ms' = now_ms + dt
    /\ UNCHANGED <<tap_times, tap_count, last_tap_time, current_bpm,
                   bpm_detected, button_last_state, last_beat_time,
                   led_is_on, led_on_time, tap_log, bpm_taps>>
    /\ UNCHANGED <<driver_vars, api_call, fx_vars>>

\* tap_tempo_process: the timeout test. The tap count the recording starts
\* from: 0 when the tap comes more than TAP_TIMEOUT_MS after the previous
\* one. (now - last is a uint32_t difference; the model's times do not
\* wrap.)
TapCountNoTimeout(tc, now, last) == tc
TapCountAfterTimeout(tc, now, last) ==
    IF tc > 0 /\ (now - last) > TAP_TIMEOUT_MS THEN 0 ELSE tc

\* tap_tempo_process: the tap time recorded in a history of tc taps, the
\* oldest tap shifted out of a full history.
RecordTap(times, tc, now) ==
    IF tc < TAP_HISTORY_SIZE
    THEN [times |-> [times EXCEPT ![tc] = now], tc |-> tc + 1]
    ELSE [times |-> [i \in 0..(TAP_HISTORY_SIZE - 1) |->
                        IF i < TAP_HISTORY_SIZE - 1 THEN times[i + 1]
                        ELSE now],
          tc |-> tc]

\* update_bpm: the sum of the intervals between the taps i - 1 and i, for i
\* from index i up to tc - 1.
RECURSIVE TotalInterval(_, _, _)
TotalInterval(times, tc, i) ==
    IF i >= tc THEN 0
    ELSE (times[i] - times[i - 1]) + TotalInterval(times, tc, i + 1)

\* update_bpm on a history of tc >= 2 taps: 60 / (average interval in
\* seconds), clamped to [MIN_BPM, MAX_BPM].
update_bpm(times, tc) ==
    LET total_interval == TotalInterval(times, tc, 1)
        interval_count == tc - 1
        bpm == BpmValue(60 * 1000 * interval_count, total_interval)
    IN  IF bpm.d > 0 /\ bpm.n < MIN_BPM * bpm.d
        THEN BpmValue(MIN_BPM, 1)
        ELSE IF bpm.d = 0 \/ bpm.n > MAX_BPM * bpm.d
        THEN BpmValue(MAX_BPM, 1)
        ELSE bpm

\* update_led_blink on the state (detected, bpm, on, on_time, beat_time) at
\* time now: the LED put out LED_BLINK_DURATION_MS after it was lit, and lit
\* again a beat after the latest automatic beat.
update_led_blink(detected, bpm, on, on_time, beat_time, now) ==
    IF ~detected
    THEN [on |-> on, on_time |-> on_time, beat_time |-> beat_time]
    ELSE LET lit == on /\ ~((now - on_time) >= LED_BLINK_DURATION_MS)
             beat_interval_ms == (60 * 1000 * bpm.d) \div bpm.n
         IN  IF ~lit /\ (beat_time = 0 \/ (now - beat_time) >= beat_interval_ms)
             THEN [on |-> TRUE, on_time |-> now, beat_time |-> now]
             ELSE [on |-> lit, on_time |-> on_time, beat_time |-> beat_time]

\* tap_tempo_process() at time now_ms with the button pressed
\* (button_state) or released, the module initialised.
tap_tempo_process ==
    \E button_state \in BOOLEAN :
      LET now == now_ms
          tap == button_state /\ ~button_last_state
          tc0 == TapCountAfterTimeout(tap_count, now, last_tap_time)
          rec == RecordTap(tap_times, tc0, now)
          computes == tap /\ rec.tc >= 2
          bpm == IF computes THEN update_bpm(rec.times, rec.tc)
                 ELSE current_bpm
          detected == bpm_detected \/ computes
          led == update_led_blink(detected, bpm,
                                  IF tap THEN TRUE ELSE led_is_on,
                                  IF tap THEN now ELSE led_on_time,
                                  last_beat_time, now)
      IN  /\ tap => Len(tap_log) < MaxTaps
          /\ tap_times' = IF tap THEN rec.times ELSE tap_times
          /\ tap_count' = IF tap THEN rec.tc ELSE tap_count
          /\ last_tap_time' = IF tap THEN now ELSE last_tap_time
          /\ current_bpm' = bpm
          /\ bpm_detected' = detected
          /\ button_last_state' = button_state
          /\ led_is_on' = led.on
          /\ led_on_time' = led.on_time
          /\ last_beat_time' = led.beat_time
          /\ tap_log' = IF tap THEN Append(tap_log, now) ELSE tap_log
          /\ bpm_taps' = IF computes
                         THEN [i \in 1..rec.tc |-> rec.times[i - 1]]
                         ELSE bpm_taps
          /\ UNCHANGED now_ms
          /\ UNCHANGED <<driver_vars, api_call, fx_vars>>

\* tap_tempo_reset(): state zeroed, the BPM back at its default.
tap_tempo_reset ==
    /\ tap_times' = [i \in 0..(TAP_HISTORY_SIZE - 1) |-> 0]
    /\ tap_count' = 0
    /\ last_tap_time' = 0
    /\ current_bpm' = BpmValue(DEFAULT_BPM, 1)
    /\ bpm_detected' = FALSE
    /\ last_beat_time' = 0
    /\ led_is_on' = FALSE
    /\ tap_log' = <<>>
    /\ bpm_taps' = <<>>
    /\ UNCHANGED <<button_last_state, led_on_time, now_ms>>
    /\ UNCHANGED <<driver_vars, api_call, fx_vars>>

\* The main loop polls the button as time passes; the module is reset at
\* any time.
NextTap ==
    \/ Tick
    \/ tap_tempo_process
    \/ tap_tempo_reset

SpecTap == Init /\ [][NextTap]_vars

\* ----------------------------------------------------------------- helpers
Min(a, b) == IF a <= b THEN a ELSE b

\* The stereo frame in slot p of a ring buffer.
RingFrame(rb, p) == <<rb[p * 2], rb[p * 2 + 1]>>

\* A step of audio_out_i2s_write: only write advances the stream.
WriteStep == src_pos' > src_pos

\* A step in which dma_handler runs fill_dma_buffer.
IsrFillStep == isr_pc = "fill" /\ isr_pc' = "update"

\* A step in which audio_out_i2s_start prefills and starts the transfer,
\* called directly or by write.
StartStep == ~is_running /\ is_running'

\* Free space audio_out_i2s_write finds when it is called.
FreeSpace == Capacity - buffered_samples

\* ----------------------------------------------------------------- claims

\* C1: buffered_samples is the number of frames write accepted minus the
\* number of frames the refills popped.
C1_Count == buffered_samples = Len(written) - popped

\* C1: every refill stores, slot by slot, the accepted frames that follow the
\* ones already popped, in the order write accepted them, and silence once
\* they are exhausted; it pops exactly those frames.
C1_Refill ==
    LET NextWord(j) == IF popped + j < Len(written')
                       THEN PackFrame(written'[popped + j + 1]) ELSE 0
    IN  /\ IsrFillStep =>
             /\ \A i \in 0..(I2S_DMA_BUFFER_SIZE - 1) :
                  dma_buffer'[finished_buffer][i] = NextWord(i)
             /\ popped' = Min(Len(written'), popped + I2S_DMA_BUFFER_SIZE)
        /\ StartStep =>
             /\ \A i \in 0..(I2S_DMA_BUFFER_SIZE - 1) :
                  /\ dma_buffer'[0][i] = NextWord(i)
                  /\ dma_buffer'[1][i] = NextWord(I2S_DMA_BUFFER_SIZE + i)
             /\ popped' = Min(Len(written'), popped + 2 * I2S_DMA_BUFFER_SIZE)
        /\ (~IsrFillStep /\ ~StartStep /\ written' # <<>>) => popped' = popped

\* C1: over every sequence of complete write and refill operations the frames
\* the refills produce are the frames write accepted, in write order, none
\* duplicated and none skipped, and buffered_samples = accepted - popped.
C1_Fifo == [](C1_Count) /\ [][C1_Refill]_vars

\* C1 witness: more frames than the ring holds were popped (the indices have
\* wrapped), a refill has run short, and every accepted frame was popped.
C1_Witness ==
    /\ popped > Capacity
    /\ popped = Len(written)
    /\ underrun_count > 0
    /\ isr_pc = "idle"

\* C2: whenever a write that the interrupt handler preempted, at whatever
\* point, and the handler have both finished, buffered_samples is the number
\* of frames stored and not yet popped, and it is at most the capacity.
C2_NoLostUpdate ==
    (wr_pc = "idle" /\ isr_pc = "idle") =>
        /\ buffered_samples = Len(written) - popped
        /\ buffered_samples <= Capacity

\* C3: in every state complete operations reach, 0 <= buffered_samples <=
\* capacity, both indices are below the capacity, write_pos is read_pos plus
\* buffered_samples modulo the capacity, and the slot at read_pos holds the
\* oldest frame not yet popped.
C3_RingInvariant ==
    /\ buffered_samples \in 0..Capacity
    /\ write_pos \in 0..(Capacity - 1)
    /\ read_pos \in 0..(Capacity - 1)
    /\ write_pos = (read_pos + buffered_samples) % Capacity
    /\ buffered_samples > 0 =>
         /\ popped < Len(written)
         /\ RingFrame(ring_buffer, read_pos) = written[popped + 1]

\* C3 witness: the stored frames wrap around the end of the ring while the
\* driver runs.
C3_Witness ==
    /\ is_running
    /\ buffered_samples > 1
    /\ write_pos < read_pos
    /\ write_pos > 0

\* C4: a write of n frames into free space f < n returns f, stores the first
\* f frames of its input in order from write_pos on, and leaves every slot
\* that holds a frame not yet popped as it was.
C4_ShortWriteStep ==
    (WriteStep /\ FreeSpace < num_samples') =>
        /\ samples_written' = FreeSpace
        /\ \A j \in 0..(FreeSpace - 1) :
             RingFrame(ring_buffer', (write_pos + j) % Capacity)
               = StreamFrame(src_pos + j + 1)
        /\ \A j \in 0..(buffered_samples - 1) :
             RingFrame(ring_buffer', (read_pos + j) % Capacity)
               = RingFrame(ring_buffer, (read_pos + j) % Capacity)

C4_ShortWrite == [][C4_ShortWriteStep]_vars

\* C4 witness: a write of 3 frames has just returned 2 with frames already
\* waiting in the ring.
C4_Witness ==
    /\ num_samples = 3
    /\ samples_written = 2
    /\ is_running
    /\ buffered_samples = Capacity
    /\ src_pos = Len(written) + 1

\* C5 as stated: a write that drops n - f frames raises overrun_count by
\* n - f, and a write that fits leaves it unchanged.
C5_OverrunCountsFrames ==
    [][WriteStep =>
         overrun_count' = overrun_count
             + (IF num_samples' > FreeSpace THEN num_samples' - FreeSpace
                ELSE 0)]_vars

\* C5 amended: a write that drops frames returns f and raises overrun_count
\* by exactly 1, however many frames it drops, and with the driver running
\* it leaves the ring full; a write that fits leaves overrun_count unchanged.
C5_OverrunCountsCalls ==
    [][WriteStep =>
         /\ overrun_count' = overrun_count
              + (IF num_samples' > FreeSpace THEN 1 ELSE 0)
         /\ num_samples' > FreeSpace =>
              /\ samples_written' = FreeSpace
              /\ is_running => buffered_samples' = Capacity]_vars

\* C5 witness: one write has dropped two frames and overrun_count is 1.
C5_Witness ==
    /\ overrun_count = 1
    /\ num_samples - samples_written >= 2
    /\ src_pos = Len(written) + num_samples - samples_written

\* The word a refill stores in slot i when it starts with n frames buffered
\* and read_pos at rp in ring buffer rb.
RefillWord(rb, rp, n, i) ==
    IF i < n THEN PackFrame(RingFrame(rb, (rp + i) % Capacity)) ELSE 0

\* C6: a refill of k slots with n frames buffered stores a word in each of
\* the k slots: the n oldest frames in order and then zero words; it lowers
\* buffered_samples by min(n, k) and raises underrun_count by k - min(n, k).
\* The prefill of start is two such refills, one after the other.
C6_RefillStep ==
    LET k == I2S_DMA_BUFFER_SIZE
    IN  /\ IsrFillStep =>
             LET n == buffered_samples
             IN  /\ \A i \in 0..(k - 1) :
                      dma_buffer'[finished_buffer][i]
                        = RefillWord(ring_buffer, read_pos, n, i)
                 /\ IF n >= k
                    THEN /\ underrun_count' = underrun_count
                         /\ buffered_samples' = n - k
                         /\ read_pos' = (read_pos + k) % Capacity
                    ELSE /\ underrun_count' = underrun_count + (k - n)
                         /\ buffered_samples' = 0
                         /\ read_pos' = (read_pos + n) % Capacity
        /\ StartStep =>
             LET n0 == buffered_samples
                         + (IF WriteStep THEN samples_written' ELSE 0)
                 p0 == Min(n0, k)
                 n1 == n0 - p0
                 p1 == Min(n1, k)
             IN  /\ \A i \in 0..(k - 1) :
                      /\ dma_buffer'[0][i]
                           = RefillWord(ring_buffer', read_pos, n0, i)
                      /\ dma_buffer'[1][i]
                           = RefillWord(ring_buffer',
                                        (read_pos + p0) % Capacity, n1, i)
                 /\ underrun_count' = underrun_count + (k - p0) + (k - p1)
                 /\ buffered_samples' = n1 - p1
                 /\ read_pos' = (read_pos + p0 + p1) % Capacity

C6_Refill == [][C6_RefillStep]_vars

\* C6 witness: dma_handler has just refilled a buffer from a ring that held
\* one frame: the frame in slot 0, silence in slot 1, one underrun counted.
C6_Witness ==
    /\ isr_pc = "update"
    /\ dma_buffer[finished_buffer][0] # 0
    /\ dma_buffer[finished_buffer][1] = 0
    /\ underrun_count = 1
    /\ buffered_samples = 0
    /\ popped = Len(written)

\* C7 as stated: no operation lowers underrun_count or overrun_count.
C7_CountersNeverLowered ==
    [][underrun_count' >= underrun_count
       /\ overrun_count' >= overrun_count]_vars

\* C7 amended: a step that lowers either counter is clear_buffer, which sets
\* both to 0 together with the indices, the fill level and the ring; write,
\* refill, start and stop never lower either.
C7_CountersLoweredOnlyByClear ==
    [][(underrun_count' < underrun_count \/ overrun_count' < overrun_count)
         => /\ underrun_count' = 0
            /\ overrun_count' = 0
            /\ write_pos' = 0
            /\ read_pos' = 0
            /\ buffered_samples' = 0
            /\ \A j \in 0..(I2S_BUFFER_SIZE - 1) : ring_buffer'[j] = 0
            /\ is_running' = is_running]_vars

\* C7 witness: the last write dropped frames, which counted an overrun, and
\* clear_buffer has since run with the driver running: both counters are 0.
C7_Witness ==
    /\ num_samples > samples_written
    /\ overrun_count = 0
    /\ underrun_count = 0
    /\ src_pos = 0
    /\ is_running

\* A step in which the DMA channel moves a word.
DmaTransferStep == dma_trans_count' = dma_trans_count - 1

\* A step in which a trigger starts the idle DMA channel.
DmaArmStep == dma_trans_count = 0 /\ dma_trans_count' > 0

\* C8: while the driver runs and clear_buffer has not been called since it
\* started, every word the hardware reads is the oldest word the refills
\* stored that it has not read yet (the refills store the accepted frames in
\* write order, and silence where the ring was empty), and whenever the
\* channel is started it is at the first word of a buffer that was refilled
\* completely and not read since.
C8_HardwareStreamStep ==
    /\ C1_Refill
    /\ (DmaTransferStep /\ is_running /\ hw_valid) =>
         /\ expected # <<>>
         /\ DmaReadWords = {Head(expected)}
    /\ (DmaArmStep /\ is_running' /\ hw_valid') =>
         /\ dma_read_addr' \in {0, I2S_DMA_BUFFER_SIZE}
         /\ fresh'[dma_read_addr' \div I2S_DMA_BUFFER_SIZE]

C8_HardwareStream == [][C8_HardwareStreamStep]_vars

\* A step in which dma_handler is entered and re-arms the channel.
IsrEnterStep == isr_pc = "idle" /\ isr_pc' = "fill"

\* A step in which dma_handler returns.
IsrReturnStep == isr_pc = "update" /\ isr_pc' = "idle"

\* C9: in every run of dma_handler the channel is re-armed on buffer
\* 1 - current_dma_buffer before any frame is popped; the buffer refilled is
\* the one whose transfer just finished, and the buffer handed to the
\* hardware is left as it was; on return current_dma_buffer is the re-armed
\* buffer.
C9_HandlerOrderStep ==
    /\ IsrEnterStep =>
         /\ dma_trans_count = 0
         /\ dma_read_addr = (current_dma_buffer + 1) * I2S_DMA_BUFFER_SIZE
         /\ dma_read_addr' = (1 - current_dma_buffer) * I2S_DMA_BUFFER_SIZE
         /\ dma_trans_count' = I2S_DMA_BUFFER_SIZE
         /\ finished_buffer' = current_dma_buffer
         /\ next_buffer' = 1 - current_dma_buffer
         /\ popped' = popped
         /\ read_pos' = read_pos
         /\ buffered_samples' = buffered_samples
         /\ dma_buffer' = dma_buffer
    /\ IsrFillStep =>
         /\ finished_buffer = current_dma_buffer
         /\ next_buffer = 1 - finished_buffer
         /\ dma_buffer'[next_buffer] = dma_buffer[next_buffer]
    /\ IsrReturnStep =>
         /\ current_dma_buffer' = next_buffer
         /\ current_dma_buffer' = 1 - current_dma_buffer

C9_HandlerOrder == [][C9_HandlerOrderStep]_vars

\* C10: between interrupts, after the N-th one since start was handled,
\* current_dma_buffer is N mod 2, the transfer the channel is making or has
\* just completed is that buffer from its first word to its last, and no
\* word of the other buffer has been read since it was refilled.
C10_PingPong ==
    (is_running /\ isr_pc = "idle") =>
        /\ current_dma_buffer = handled
        /\ dma_read_addr + dma_trans_count
             = (current_dma_buffer + 1) * I2S_DMA_BUFFER_SIZE
        /\ fresh[1 - current_dma_buffer]

\* A step that is a call of audio_out_i2s_start().
StartCallStep == api_call' \in {"start", "start_again"} /\ api_call' # api_call

\* A step that is a call of audio_out_i2s_stop().
StopCallStep == api_call' \in {"stop", "stop_again"} /\ api_call' # api_call

\* C11: every step that takes the driver from stopped to running, the first
\* start and every restart, refills both DMA buffers from the ring buffer,
\* sets current_dma_buffer to 0 and leaves the channel started on the first
\* word of buffer 0 with a whole buffer to transfer.
C11_StartFromBufferZero ==
    [][StartStep =>
         /\ fresh'[0] /\ fresh'[1]
         /\ popped' = Min(Len(written'), popped + 2 * I2S_DMA_BUFFER_SIZE)
         /\ current_dma_buffer' = 0
         /\ pio_sm_enabled'
         /\ dma_read_addr' = 0
         /\ dma_trans_count' = I2S_DMA_BUFFER_SIZE]_vars

\* C12: while the driver is stopped no frame is popped from the ring buffer
\* and the channel is not started, whether or not an interrupt was pending
\* when stop() ran.
C12_HandlerIdleWhileStopped ==
    [][(~is_running /\ ~is_running') =>
         /\ ~(popped' > popped)
         /\ ~DmaArmStep
         /\ ~IsrEnterStep
         /\ ~IsrFillStep]_vars

\* C13: a call of start() while running and a call of stop() while stopped
\* leave is_running, both indices, the fill level, both counters, both DMA
\* buffers and current_dma_buffer as they were, and pop no frame.
C13_NoOpCalls ==
    [][((StartCallStep /\ is_running) \/ (StopCallStep /\ ~is_running)) =>
         /\ UNCHANGED <<is_running, read_pos, write_pos, buffered_samples,
                        underrun_count, overrun_count, dma_buffer,
                        current_dma_buffer>>
         /\ popped' = popped]_vars

\* C13 witness: start() has just been called a second time in a row, with
\* frames waiting in the ring that a prefill would have popped.
C13_Witness ==
    /\ api_call = "start_again"
    /\ is_running
    /\ buffered_samples > 0

\* C14: a write that runs while the driver is stopped starts the transfer
\* exactly when the fill level it leaves is at least AUTO_START_THRESHOLD:
\* then the state machine is enabled and the channel triggered in that call,
\* otherwise the driver stays stopped.
C14_AutoStartStep ==
    (WriteStep /\ ~is_running) =>
        LET level == buffered_samples + samples_written'
        IN  /\ is_running' <=> level >= AUTO_START_THRESHOLD
            /\ level >= AUTO_START_THRESHOLD =>
                 /\ pio_sm_enabled'
                 /\ dma_trans_count' = I2S_DMA_BUFFER_SIZE
            /\ level < AUTO_START_THRESHOLD =>
                 /\ buffered_samples' = level
                 /\ UNCHANGED <<pio_sm_enabled, dma_trans_count, dma_buffer,
                                read_pos>>

ClearReturnStep == wr_pc = "clr_dma" /\ wr_pc' = "idle"

\* C15: when clear_buffer returns, whatever the interrupt handler did between
\* its statements, write_pos = read_pos = 0, buffered_samples = 0 and every
\* slot of the ring buffer is zero.
C15_ClearLeavesEmptyRing ==
    [][ClearReturnStep =>
         /\ write_pos' = 0
         /\ read_pos' = 0
         /\ buffered_samples' = 0
         /\ \A j \in 0..(I2S_BUFFER_SIZE - 1) : ring_buffer'[j] = 0]_vars

\* C16 as stated: a write that no interrupt interrupts and that returns w
\* leaves buffered_samples at its old value plus w and read_pos as it was.
C16_WriteOnlyAdds ==
    [][WriteStep =>
         /\ buffered_samples' = buffered_samples + samples_written'
         /\ read_pos' = read_pos]_vars

\* C16 amended: such a write leaves buffered_samples at its old value plus w
\* and read_pos as it was unless it starts the transfer; the write that
\* starts the transfer pops the 2 * I2S_DMA_BUFFER_SIZE frames of the
\* prefill: buffered_samples is the old value plus w less that many, and
\* read_pos has advanced by that many modulo the capacity.
C16_WriteAddsUnlessItStarts ==
    [][WriteStep =>
         IF StartStep
         THEN /\ buffered_samples' = buffered_samples + samples_written'
                                       - 2 * I2S_DMA_BUFFER_SIZE
              /\ read_pos' = (read_pos + 2 * I2S_DMA_BUFFER_SIZE) % Capacity
         ELSE /\ buffered_samples' = buffered_samples + samples_written'
              /\ read_pos' = read_pos]_vars

\* C16 witness: a write of 3 frames has just started the transfer; one frame
\* more than the prefill took is left in the ring.
C16_Witness ==
    /\ is_running
    /\ api_call = "none"
    /\ num_samples = 3
    /\ samples_written = 3
    /\ Len(written) = 2 * I2S_DMA_BUFFER_SIZE + 1
    /\ popped = 2 * I2S_DMA_BUFFER_SIZE
    /\ buffered_samples = 1
    /\ dma_trans_count = I2S_DMA_BUFFER_SIZE
    /\ handled = 0

\* ------------------------------------------------------------------- C19
\* The bound of lo..hi nearest to x; x itself when it lies within.
Nearest(x, lo, hi) == IF x < lo THEN lo ELSE IF x > hi THEN hi ELSE x

ProcessCallStep == fx_call' = "process"

\* C17: a call of audio_effect_process made while enabled is false, or with
\* a channel count other than 2, leaves every sample of its block as it was
\* and leaves the capture buffer, the write position, the read position,
\* the repeat counter and the repeating flag unchanged.
C17_DisabledOrMonoIsNoOp ==
    [][(ProcessCallStep
          /\ (~current_params.enabled \/ num_channels' # 2)) =>
         /\ data' = data_in'
         /\ UNCHANGED <<slice_buffer, slice_write_pos, slice_read_pos_f,
                        repeat_counter, is_repeating>>]_vars

\* A stereo block of two frames was handed to a disabled engine that was in
\* the middle of a repeat, and came back as it was.
C17_Witness ==
    /\ fx_call = "process"
    /\ ~current_params.enabled
    /\ num_channels = 2
    /\ Len(data_in) = 2
    /\ data = data_in
    /\ is_repeating
    /\ slice_read_pos_f > 0
    /\ slice_write_pos > 0

\* ------------------------------------------------------------------- C18
\* Input frames tried in every state: both ends of int16_t, values whose
\* hundredth is not whole, and zero.
TestFrames == {<<32767, -32768>>, <<-32767, 99>>, <<0, -1>>}

\* C18: in every reachable state of the engine, for every input frame, the
\* frame audio_effect_process writes back is the input frame itself when
\* wet_mix is 0, repeating or not, and is the windowed slice sample itself
\* when wet_mix is 100 and the engine is repeating.
C18_MixExact ==
    \A input \in TestFrames, ub \in UbOutcomes :
        \A r \in {ProcessFrame(Engine, current_params,
                               ActiveSliceLength(current_params), input, ub)} :
            /\ current_params.wet_mix = 0 => r.out = input
            /\ (current_params.wet_mix = 100 /\ r.repeating) =>
                   r.out = r.repeat

\* A fully wet engine in the middle of a repeat has just written back a
\* frame that differs from its input, and a fully dry one would have
\* repeated too.
C18_Witness ==
    /\ fx_call = "process"
    /\ current_params.enabled
    /\ num_channels = 2
    /\ current_params.wet_mix = 100
    /\ is_repeating
    /\ slice_read_pos_f > 0
    /\ data # data_in

\* ------------------------------------------------------------------- C20
\* C20: no integer division or modulo of audio_effect_process is executed
\* with a zero divisor: the clock divider is not 0, and the effective loop
\* length is not 0 when reverse playback takes a position modulo it.
C20_NoZeroDivisor ==
    /\ current_params.clock_divider # 0
    /\ ActiveSliceLength(current_params) >= 1
    /\ ~zero_divisor

\* A call of audio_effect_process that runs its loop.
ProcessLoopStep == fx_call' = "process" /\ fx_pos' # fx_pos

\* C21: with repeat_count 1, wet_mix 100, pitch 1.0, forward, no window,
\* probability 1, loop_start 0, no decay and active slice length L, from a
\* reset engine, on L frames of a pattern followed by silence: output frames
\* 1..L are the dry input, frames L+1..2L are the L captured frames, and
\* from frame 2L+1 on the output is the dry input (silence).
C21_OneFullRepeat ==
    [][ProcessLoopStep =>
        \A i \in 1..Len(data') :
            LET len == ActiveSliceLength(current_params)
                k == fx_pos + i
            IN  data'[i] =
                    IF k <= len THEN PatternFrame(k - 1, len)
                    ELSE IF k <= 2 * len THEN PatternFrame(k - len - 1, len)
                    ELSE <<0, 0>>]_vars

\* The length of the loop a pass of the engine e plays under current_params.
LoopLength(e) ==
    LET range == calculate_loop_range(ActiveSliceLength(current_params),
                                      current_params, e.repeat_counter)
    IN  range[2] - range[1]

\* The read position of the engine after moved on from that of before and
\* stayed inside the loop.
AdvancedInLoop(before, after) ==
    /\ Finite(after.slice_read_pos_f)
    /\ after.slice_read_pos_f > before.slice_read_pos_f
    /\ after.slice_read_pos_f < LoopLength(before) * POS_UNIT

\* C22: a repeat ends exactly when it is not frozen. In every frame played
\* while repeating with freeze = false the read position advances inside
\* the loop, or the loop end is reached: repeat_counter is incremented and,
\* when it reaches repeat_count, the repeat stops with repeat_counter 0 (so
\* every repeat stops after finitely many frames). With freeze = true the
\* read position advances or wraps to the loop start, repeat_counter is
\* unchanged and is_repeating stays true.
C22_RepeatEndsUnlessFrozen ==
    \A input \in TestFrames, ub \in UbOutcomes :
        \A e3 \in {CaptureFrame(Engine, current_params,
                                ActiveSliceLength(current_params), input)} :
            \A r \in {RepeatFrame(e3, current_params,
                                  ActiveSliceLength(current_params), input, ub)} :
                e3.is_repeating =>
                    IF current_params.freeze
                    THEN /\ r.e.is_repeating
                         /\ r.e.repeat_counter = e3.repeat_counter
                         /\ \/ AdvancedInLoop(e3, r.e)
                            \/ r.e.slice_read_pos_f = 0
                    ELSE \/ /\ r.e.is_repeating
                            /\ r.e.repeat_counter = e3.repeat_counter
                            /\ AdvancedInLoop(e3, r.e)
                         \/ /\ r.e.is_repeating
                            /\ r.e.slice_read_pos_f = 0
                            /\ r.e.repeat_counter = e3.repeat_counter + 1
                            /\ r.e.repeat_counter < current_params.repeat_count
                         \/ /\ ~r.e.is_repeating
                            /\ r.e.slice_read_pos_f = 0
                            /\ r.e.repeat_counter = 0
                            /\ e3.repeat_counter + 1 >= current_params.repeat_count

\* Bit b of the int32_t word w and of the int16_t sample x, in two's
\* complement.
WordBit(w, b) ==
    IF b < 16
    THEN (w \div (2 ^ b)) % 2
    ELSE ((w \div 65536) \div (2 ^ (b - 16))) % 2
SampleBit(x, b) == (x \div (2 ^ b)) % 2

\* The int16_t that 16 bits h (0..65535) are.
Signed16(h) == IF h >= 32768 THEN h - 65536 ELSE h

\* The word w holds the frame fr: left in bits 31..16, right in bits 15..0,
\* so that both samples are read back from it.
WordHoldsFrame(w, fr) ==
    /\ \A b \in 0..15 :
          /\ WordBit(w, 16 + b) = SampleBit(fr[1], b)
          /\ WordBit(w, b) = SampleBit(fr[2], b)
    /\ <<Signed16((w \div 65536) % 65536), Signed16(w % 65536)>> = fr
    /\ (fr = <<0, 0>> => w = 0)

\* C23: for every pair of 16-bit samples, the word fill_dma_buffer stores
\* (in dma_handler and in the prefill of start) has the two's-complement
\* bits of left in bits 31..16 and those of right in bits 15..0; a negative
\* right leaves the upper half alone, the pair is recovered from the word,
\* and the silent frame is the word 0.
C23_PackedWordStep ==
    LET k == I2S_DMA_BUFFER_SIZE
    IN  /\ IsrFillStep =>
             \A i \in 0..(k - 1) :
                 i < buffered_samples =>
                     WordHoldsFrame(dma_buffer'[finished_buffer][i],
                                    RingFrame(ring_buffer,
                                              (read_pos + i) % Capacity))
        /\ StartStep =>
             \A i \in 0..(2 * k - 1) :
                 i < buffered_samples + (IF WriteStep THEN samples_written' ELSE 0) =>
                     WordHoldsFrame(dma_buffer'[i \div k][i % k],
                                    RingFrame(ring_buffer',
                                              (read_pos + i) % Capacity))

C23_PackedWord == [][C23_PackedWordStep]_vars

\* C23 witness: the prefill of start has packed the frame (1, -1), a
\* negative right sample under a positive left one, into the word
\* 0x0001FFFF.
C23_Witness ==
    /\ is_running
    /\ written = <<<<1, -1>>>>
    /\ popped = 1
    /\ dma_buffer[0][0] = 131071

\* The DMA buffer the channel is reading while a transfer is in progress.
ActiveDmaBuffer == dma_read_addr \div I2S_DMA_BUFFER_SIZE

\* C24: while the driver is Running, no operation (the refill in
\* dma_handler, start, clear_buffer) modifies the DMA buffer the hardware
\* is reading.
C24_ActiveBufferUntouched ==
    [][(/\ is_running
        /\ dma_trans_count > 0
        /\ dma_read_addr < 2 * I2S_DMA_BUFFER_SIZE)
       => dma_buffer'[ActiveDmaBuffer] = dma_buffer[ActiveDmaBuffer]]_vars

\* A step in which fill_dma_buffer has run: it has popped frames or counted
\* an underrun.
FillRanStep == popped' > popped \/ underrun_count' > underrun_count

\* A step of dma_handler.
IsrStep == isr_pc' # isr_pc

\* C25 as stated: every run of fill_dma_buffer is a step of dma_handler, and
\* every step outside dma_handler leaves read_pos alone and never lowers
\* buffered_samples.
C25_PopsOnlyInInterrupt ==
    [][/\ FillRanStep => IsrFillStep
       /\ ~IsrStep => /\ read_pos' = read_pos
                      /\ buffered_samples' >= buffered_samples]_vars

\* C25 amended: every run of fill_dma_buffer is a step of dma_handler or the
\* prefill of audio_out_i2s_start, which the foreground runs (called directly
\* or by the auto-start of write) only while the driver is stopped and no
\* handler is in progress; a write that does not start the transfer only
\* advances write_pos by the frames it stored and adds them to
\* buffered_samples, and start() called while running pops nothing.
C25_PopsInHandlerOrPrefill ==
    [][/\ FillRanStep =>
            \/ IsrFillStep
            \/ StartStep /\ isr_pc = "idle" /\ isr_pc' = "idle"
       /\ (WriteStep /\ ~StartStep) =>
            /\ read_pos' = read_pos
            /\ popped' = popped
            /\ write_pos' = (write_pos + samples_written') % Capacity
            /\ buffered_samples' = buffered_samples + samples_written'
       /\ (api_call' \in {"start", "start_again"} /\ is_running) =>
            /\ read_pos' = read_pos
            /\ popped' = popped
            /\ buffered_samples' = buffered_samples]_vars

\* C25 witness: start(), called by the foreground with three frames in the
\* ring, has popped all three into the DMA buffers and counted an underrun;
\* no interrupt has been handled.
C25_Witness ==
    /\ api_call = "start"
    /\ is_running
    /\ handled = 0
    /\ isr_pc = "idle"
    /\ Len(written) = 3
    /\ popped = 3
    /\ read_pos = 3
    /\ buffered_samples = 0
    /\ underrun_count = 1

\* C26: after audio_out_i2s_clear_buffer, the frames written next are not
\* popped by a refill of dma_handler until the driver has been started
\* again, which write does only at the auto-start threshold: the threshold
\* applies to every connection. (popped counts the frames popped since the
\* latest clear; hw_valid says the driver was started since then.)
C26_ThresholdAfterClear ==
    [][(IsrFillStep /\ popped' > popped) => hw_valid]_vars

\* The slots of the ring that hold a frame stored and counted by write and
\* not yet popped.
UnpoppedSlots ==
    {(read_pos + j) % Capacity : j \in 0..(Len(written) - popped - 1)}

\* The slot a write in progress has begun to store into and has not yet
\* counted in buffered_samples, if any.
SlotInProgress ==
    IF wr_pc \in {"right", "pos"} THEN {write_pos}
    ELSE IF wr_pc = "load" THEN {(write_pos + Capacity - 1) % Capacity}
    ELSE {}

\* The slots a step pops.
PoppedSlots == {(read_pos + j) % Capacity : j \in 0..(popped' - popped - 1)}

\* C27: with every single update of write_pos, read_pos and buffered_samples
\* indivisible, wherever the refill preempts write: every slot the consumer
\* pops holds a frame whose two samples write has stored and counted, in the
\* order written, never the slot a write in progress is storing into; and
\* write never stores a sample into a slot whose frame is not yet popped.
C27_AtomicStep ==
    /\ popped' > popped =>
         /\ popped' <= Len(written)
         /\ PoppedSlots \cap SlotInProgress = {}
         /\ \A j \in 1..(popped' - popped) :
              RingFrame(ring_buffer, (read_pos + j - 1) % Capacity)
                = written[popped + j]
    /\ ring_buffer' # ring_buffer => write_pos \notin UnpoppedSlots

C27_AtomicHandOver == [][C27_AtomicStep]_vars

\* C27 witness: the refill has preempted a write between the store of the
\* left and the store of the right sample of its second frame and has popped
\* the frame stored before it, and only that frame.
C27_Witness ==
    /\ wr_pc = "right"
    /\ wr_i = 1
    /\ isr_pc = "update"
    /\ is_running
    /\ popped = Len(written)
    /\ popped > 0
    /\ buffered_samples = 0
    /\ underrun_count > 0

\* The probability gate passes on the next draw: always at probability 1,
\* never at 0, otherwise when the next number of the generator, taken modulo
\* 1000 as thousandths, is below the probability.
GatePasses ==
    \/ current_params.slice_probability >= MAX_SLICE_PROBABILITY
    \/ /\ current_params.slice_probability > MIN_SLICE_PROBABILITY
       /\ (NextRandom(random_state) % 1000) * FX_UNIT
            < current_params.slice_probability * 1000

\* C28: in the frame processed next, is_repeating changes from false to true
\* only where the capture cursor reaches the active slice length and wraps
\* to 0, and only if freeze is false and the probability gate passes; the
\* read position and repeat_counter are then 0, and the rest of the frame
\* starts no repeat. In a frame whose cursor wraps, with the engine not
\* repeating and not frozen, the repeat always starts at probability 1 and
\* never at probability 0.
C28_RepeatEntry ==
    current_params.enabled =>
    \A input \in TestFrames, ub \in UbOutcomes :
        \A e3 \in {CaptureFrame(Engine, current_params,
                                ActiveSliceLength(current_params), input)} :
            \A r \in {RepeatFrame(e3, current_params,
                                  ActiveSliceLength(current_params), input, ub)} :
                LET wraps == slice_write_pos + 1
                               >= ActiveSliceLength(current_params)
                IN  /\ (~is_repeating /\ e3.is_repeating) =>
                          /\ wraps
                          /\ e3.slice_write_pos = 0
                          /\ ~current_params.freeze
                          /\ GatePasses
                          /\ e3.slice_read_pos_f = 0
                          /\ e3.repeat_counter = 0
                    /\ (r.e.is_repeating \/ r.repeating) => e3.is_repeating
                    /\ (wraps /\ ~is_repeating /\ ~current_params.freeze) =>
                          /\ current_params.slice_probability
                               >= MAX_SLICE_PROBABILITY => e3.is_repeating
                          /\ current_params.slice_probability
                               <= MIN_SLICE_PROBABILITY => ~e3.is_repeating
                          /\ e3.is_repeating = GatePasses

\* C28 witness: at probability 0.8 the gate has drawn twice, failed at
\* probability 0.5 and then passed, in the frame that filled the slice the
\* second time; the repeat it started has played that one frame.
C28_Witness ==
    /\ fx_call = "process"
    /\ current_params.enabled
    /\ ~current_params.freeze
    /\ current_params.slice_probability = 80
    /\ random_state = NextRandom(NextRandom(RANDOM_SEED))
    /\ is_repeating
    /\ slice_write_pos = 0
    /\ repeat_counter = 0
    /\ slice_read_pos_f = POS_UNIT

\* C29: whenever the engine is repeating, at every frame boundary (after
\* every call of process and of set_params) the read position is a number
\* in [0, effective loop length), the loop being that of the current
\* parameters and repeat_counter.
C29_ReadPosInLoop ==
    is_repeating =>
        /\ Finite(slice_read_pos_f)
        /\ slice_read_pos_f >= 0
        /\ slice_read_pos_f < LoopLength(Engine) * POS_UNIT

\* A step in which audio_effect_process has run its loop.
FramesProcessedStep ==
    /\ fx_call' = "process"
    /\ ~ProcessReturnsEarly(num_channels', current_params)

\* C30: in every call of process that runs its loop, after any calls of
\* set_params, process and reset, the first store into slice_buffer is at a
\* frame index below MAX_SLICE_LENGTH (and so is every store, each frame of
\* a block being the first of a shorter call), and the call leaves
\* slice_write_pos below the active slice length it used, which is at most
\* MAX_SLICE_LENGTH.
C30_CursorStep ==
    FramesProcessedStep =>
        /\ slice_write_pos < MAX_SLICE_LENGTH
        /\ slice_write_pos' < ActiveSliceLength(current_params)
        /\ ActiveSliceLength(current_params) <= MAX_SLICE_LENGTH

C30_CursorInSlice == [][C30_CursorStep]_vars

\* C30 witness: a frame has been stored at index MAX_SLICE_LENGTH - 1, the
\* last of slice_buffer: the slice of MAX_SLICE_LENGTH frames it filled has
\* been saved and the cursor is back at 0.
C30_Witness ==
    /\ fx_call = "process"
    /\ ActiveSliceLength(current_params) = MAX_SLICE_LENGTH
    /\ multi_slice_lengths[current_slice_index] = MAX_SLICE_LENGTH
    /\ slice_write_pos = 0

\* (1 - frac) * s1 + frac * s2 converted to int16_t, frac in 1/POS_UNIT.
Interpolated(s1, s2, frac) ==
    CDiv(s1 * (POS_UNIT - frac) + s2 * frac, POS_UNIT)

\* C31: in a frame played while repeating forward from the current slice at
\* a fractional read position p whose two neighbours lie inside the loop,
\* the slice sample used before windowing is the linear interpolation
\* (1 - frac(p)) * slice[floor(p)] + frac(p) * slice[floor(p) + 1].
C31_Interpolated ==
    \A input \in TestFrames, ub \in UbOutcomes :
        \A e3 \in {CaptureFrame(Engine, current_params,
                                ActiveSliceLength(current_params), input)} :
            LET p == e3.slice_read_pos_f
                idx == p \div POS_UNIT
                frac == p % POS_UNIT
            IN  (/\ current_params.enabled
                 /\ e3.is_repeating
                 /\ ~current_params.reverse
                 /\ current_params.slice_select = 0
                 /\ current_params.window_shape = 0
                 /\ current_params.loop_start = 0
                 /\ Finite(p)
                 /\ frac # 0
                 /\ idx + 1 < LoopLength(e3)) =>
                \A r \in {RepeatFrame(e3, current_params,
                                      ActiveSliceLength(current_params),
                                      input, ub)} :
                    \A c \in 1..STEREO_CHANNELS :
                        r.repeat[c] =
                            Interpolated(
                                SliceAt(e3.slice_buffer,
                                        idx * STEREO_CHANNELS + c - 1),
                                SliceAt(e3.slice_buffer,
                                        (idx + 1) * STEREO_CHANNELS + c - 1),
                                frac)

\* C32: in the frame processed next from any reachable state, if the engine
\* is repeating with a window, get_window_envelope is called with a position
\* below the loop length, the envelope it returns lies in [0, 1] (the
\* unsigned difference length - pos has not wrapped), and the windowed
\* sample is the slice sample scaled by it, within int16_t.
C32_EnvelopeInRange ==
    \A input \in TestFrames, ub \in UbOutcomes :
        \A e3 \in {CaptureFrame(Engine, current_params,
                                ActiveSliceLength(current_params), input)} :
            (/\ current_params.enabled
             /\ e3.is_repeating
             /\ current_params.window_shape > 0) =>
                LET pos == FloatToU32(e3.slice_read_pos_f, ub)
                    envelope == get_window_envelope(pos, LoopLength(e3),
                                                    current_params.window_shape)
                IN  /\ pos < LoopLength(e3)
                    /\ envelope[1] >= 0
                    /\ envelope[1] <= envelope[2]
                    /\ \A r \in {RepeatFrame(e3, current_params,
                                             ActiveSliceLength(current_params),
                                             input, ub)} :
                           \A c \in 1..STEREO_CHANNELS :
                               r.repeat[c] \in SAMPLE_MIN..SAMPLE_MAX

\* The length of the loop window calculate_loop_range gives for pass k
\* under current_params.
PassLength(k) ==
    LET range == calculate_loop_range(ActiveSliceLength(current_params),
                                      current_params, k)
    IN  range[2] - range[1]

\* max(0.1, 1 - decay * k / repeat_count) times len, in whole frames.
DecayedLength(len, k) ==
    LET num == FX_UNIT * current_params.repeat_count
                 - current_params.loop_size_decay * k
        den == FX_UNIT * current_params.repeat_count
    IN  IF 10 * num < den THEN len \div 10 ELSE (len * num) \div den

C34_FrozenSliceKept ==
    [][(ProcessLoopStep /\ current_params.freeze /\ is_repeating) =>
         /\ slice_buffer' = slice_buffer
         /\ multi_slice_buffer' = multi_slice_buffer
         /\ multi_slice_lengths' = multi_slice_lengths
         /\ current_slice_index' = current_slice_index]_vars

\* The frames the first pass of a repeat of len frames takes at the fixed
\* pitch of current_params.
FirstPassFrames(len) ==
    (len * FX_UNIT + current_params.pitch_shift - 1)
        \div current_params.pitch_shift

\* C35: on a pattern without a zero that is as long as the slice, followed
\* by silence, every frame played during the first pass of the repeat (from
\* the frame that fills the slice on, fully wet) is a frame of the pattern,
\* captured before the repeat was triggered, and never the silence written
\* into the capture buffer while the pass plays.
C35_FirstPassPlaysCaptured ==
    [][ProcessLoopStep =>
        \A i \in 1..Len(data') :
            LET len == ActiveSliceLength(current_params)
                k == fx_pos + i
            IN  (k >= len /\ k < len + FirstPassFrames(len)) =>
                    data'[i] \in {PatternFrame(m, len) : m \in 0..(len - 1)}]_vars

\* C36: right after audio_effect_reset, whatever was processed before it,
\* processing a block under the current parameters leaves the block a
\* freshly started engine (the engine as audio_effect_init leaves it) would
\* leave under the same parameters, probability-gate decisions included. The
\* block is nine frames of a pattern, one more than the shortest slice.
C36_ResetIsFresh ==
    (fx_call = "reset" /\ current_params.enabled) =>
        LET started == [Engine EXCEPT !.random_state = RANDOM_SEED]
            len == ActiveSliceLength(current_params)
            block == PatternBlock(0, MIN_STUTTER_LENGTH \div 8 + 1,
                                  MIN_STUTTER_LENGTH)
        IN  \A ub \in UbOutcomes :
                ProcessLoop(Engine, current_params, len, block, 1, ub).data
                  = ProcessLoop(started, current_params, len, block, 1, ub).data

\* ------------------------------------------------- the start inside write
\* C37: an auto-start inside audio_out_i2s_write never increments
\* underrun_count: the write found at least AUTO_START_THRESHOLD frames in
\* the ring, the threshold is at least the 2 * I2S_DMA_BUFFER_SIZE frames
\* the prefill of both DMA buffers pops, and the prefill pops exactly that
\* many frames and counts no underrun.
C37_AutoStartNoUnderrun ==
    [][(WriteStep /\ StartStep) =>
         /\ buffered_samples + samples_written' >= AUTO_START_THRESHOLD
         /\ AUTO_START_THRESHOLD >= 2 * I2S_DMA_BUFFER_SIZE
         /\ popped' = popped + 2 * I2S_DMA_BUFFER_SIZE
         /\ underrun_count' = underrun_count]_vars

\* C37 witness: a write of one frame has brought the ring to the threshold
\* exactly and started the transfer; the prefill took every frame and no
\* underrun is counted.
C37_Witness ==
    /\ is_running
    /\ api_call = "none"
    /\ num_samples = 1
    /\ samples_written = 1
    /\ Len(written) = AUTO_START_THRESHOLD
    /\ popped = AUTO_START_THRESHOLD
    /\ buffered_samples = 0
    /\ underrun_count = 0
    /\ overrun_count = 0
    /\ handled = 0
    /\ dma_trans_count = I2S_DMA_BUFFER_SIZE

\* ------------------------------------------------------------- tap tempo
\* A step of tap_tempo_process that detects a tap.
TapStep == Len(tap_log') = Len(tap_log) + 1

\* The index in a log of tap times of the latest tap that came more than
\* TAP_TIMEOUT_MS after the tap before it; 1 when there is none.
LastTimeoutIndex(log) ==
    LET late == {i \in 2..Len(log) : log[i] - log[i - 1] > TAP_TIMEOUT_MS}
    IN  IF late = {} THEN 1
        ELSE CHOOSE i \in late : \A j \in late : j <= i

\* bpm is 60000 * (number of intervals) / (time from the first to the last
\* tap of used), limited to [MIN_BPM, MAX_BPM].
BpmOfTaps(bpm, used) ==
    LET span == used[Len(used)] - used[1]
        beats == 60 * 1000 * (Len(used) - 1)
    IN  IF span = 0 \/ beats > MAX_BPM * span
        THEN bpm = BpmValue(MAX_BPM, 1)
        ELSE IF beats < MIN_BPM * span
        THEN bpm = BpmValue(MIN_BPM, 1)
        ELSE bpm.d > 0 /\ bpm.n * span = beats * bpm.d

\* tap_count is at most TAP_HISTORY_SIZE and the BPM lies in
\* [MIN_BPM, MAX_BPM].
TapStateInRange ==
    /\ tap_count <= TAP_HISTORY_SIZE
    /\ current_bpm.d > 0
    /\ MIN_BPM * current_bpm.d <= current_bpm.n
    /\ current_bpm.n <= MAX_BPM * current_bpm.d

\* The step of a tap: the history holds the taps from the latest late tap
\* on, at most the TAP_HISTORY_SIZE latest; a tap that came late leaves
\* tap_count = 1 and the BPM as it was; a BPM the step computes is read
\* from, and is the BPM of, those taps alone.
TapStepStartsAnew ==
    TapStep =>
        LET log == tap_log'
            n == Len(log)
            k == LastTimeoutIndex(log)
            first == IF k > n - TAP_HISTORY_SIZE + 1 THEN k
                     ELSE n - TAP_HISTORY_SIZE + 1
            used == SubSeq(log, first, n)
        IN  /\ tap_count' = Len(used)
            /\ \A i \in 1..Len(used) : tap_times'[i - 1] = used[i]
            /\ (n >= 2 /\ log[n] - log[n - 1] > TAP_TIMEOUT_MS) =>
                   /\ tap_count' = 1
                   /\ current_bpm' = current_bpm
                   /\ bpm_taps' = bpm_taps
            /\ IF Len(used) = 1
               THEN current_bpm' = current_bpm
               ELSE /\ bpm_taps' = used
                    /\ BpmOfTaps(current_bpm', used)

\* C38: a tap that arrives more than TAP_TIMEOUT_MS after the previous tap
\* discards the earlier history: after it tap_count = 1 and the BPM is
\* unchanged, and a BPM computed later uses only the intervals between the
\* taps recorded from that tap on; in every state tap_count is at most
\* TAP_HISTORY_SIZE and the BPM lies in [MIN_BPM, MAX_BPM].
C38_TimeoutStartsAnew ==
    /\ []TapStateInRange
    /\ [][TapStepStartsAnew]_vars

\* C38 witness: two taps 400 ms apart, a third 2001 ms later and a fourth
\* 800 ms after that: the BPM is 75, that of the one interval between the
\* third and the fourth tap.
C38_Witness ==
    /\ Len(tap_log) = 4
    /\ tap_log[2] - tap_log[1] = 400
    /\ tap_log[3] - tap_log[2] = TAP_TIMEOUT_MS + 1
    /\ tap_log[4] - tap_log[3] = 800
    /\ tap_count = 2
    /\ bpm_taps = <<tap_log[3], tap_log[4]>>
    /\ current_bpm = BpmValue(60 * 1000, 800)
    /\ bpm_detected

====
